---- MODULE Spec2Model ----
(***************************************************************************)
(* catsolle core engine: SessionManager (session.rs), EventBus (events.rs), *)
(* the credential lookups of KeychainManager (store.rs) that a connect     *)
(* performs, the keepalive setting of the SSH transport (client.rs) and    *)
(* the TransferQueue worker (transfer.rs).                                 *)
(*                                                                         *)
(* The binary runs on the multi-threaded tokio runtime (main.rs:13), so    *)
(* two tasks interleave at every point where no lock is held; the steps of *)
(* connect_with_config are therefore cut at its awaits and at the release  *)
(* of the registry mutex.                                                  *)
(***************************************************************************)
EXTENDS Integers, Sequences, FiniteSets, TLC

VARIABLES
    touch,       \* per connect call: the blocking task it spawned to record
                 \* last_connected_at, and the connection that task read
    inner,       \* per SshSession: its Mutex<SessionInner>, who holds it and
                 \* who waits for it, oldest first
    ops,         \* per caller of an SshSession: the operation it is in and
                 \* where it stands in it
    vault,       \* KeychainManager: what the keyring serves, the fallback file
    vaultCall,   \* the last call of the KeychainManager and what it returned;
                 \* per id, what the last successful store or delete set
    fileOps,     \* per caller of the vault: its store or delete on the
                 \* fallback file, between reading the file and writing it
    catalog,     \* ConnectionStore: the rows of the connections table, the
                 \* ids minted by imports, the last call and its result
    kh,          \* the known-hosts file, and per SshClient::connect call the
                 \* KnownHosts it loaded and its check_server_key call
    glob,        \* a match_plain_patterns call: its arguments and result
    calls,       \* one record per SessionManager::connect call (its position)
    chan,        \* a session channel: what the server sent on it, and what
                 \* exec or the reader task of a shell made of it
    startup,     \* per connect call: the startup commands of its config, how
                 \* each one ends, and which of them send_startup_commands ran
    dial,        \* per connect call: where SshClient::connect stands in its
                 \* chain, the handles it holds and the session it returned
    sessions,    \* SessionManager.sessions: HashMap<Uuid, SessionHandle>
    transports,  \* the SshSession behind each session id (russh handle state)
    bus,         \* EventBus: the events broadcast so far, in send order
    subscribed,  \* whether the bus has a receiver (a send without one is dropped)
    rx,          \* the receiver of run_app: its position in the bus, what it
                 \* handled, and how many events its Lagged results reported
    disc,        \* per id: how many disconnect(id) calls ran after the handle
                 \* was registered: 0, 1, or 2 for two and more
    jobs,        \* every TransferJob handed to enqueue, and the state of the call
    queue,       \* the mpsc channel of the TransferQueue: job ids, oldest first
    permits,     \* free slots of the channel
    waiting,     \* enqueue callers suspended on a full channel, oldest first
    granted,     \* suspended callers that were handed a slot and have not sent yet
    rxClosed,    \* the worker's receiver is gone
    worker,      \* the worker task: its position in process_job
    accepted,    \* job ids in the order the channel took them
    startOrder   \* job ids in the order the worker started them

xferVars ==
    <<jobs, queue, permits, waiting, granted, rxClosed, worker, accepted,
      startOrder>>

vars ==
    <<touch, inner, ops, chan, startup, dial, vault, vaultCall, fileOps, catalog, kh, glob, calls, sessions, transports, bus, subscribed, rx, disc, xferVars>>

(***************************************************************************)
(* Bounds of the model.                                                    *)
(***************************************************************************)
MaxSessions == 2      \* connect calls per run
MaxJumps == 1         \* jump hosts per connection
MaxJobs == 34         \* enqueue calls per run of the queue specification
MaxTransferJobs == 2  \* enqueue calls per run of the transfer specification
BusCapacity == 2      \* the capacity the bus is created with
MaxImports == 2       \* import_from_ssh_config calls per run
MaxBlocks == 2        \* Host blocks of an imported ssh config
MaxEntries == 2       \* entries of the known-hosts file before the first connect
MaxPatternLen == 2    \* characters of a host pattern after its "!"
MaxHostLen == 2       \* characters of a host name
MaxFileUnits == 3     \* largest file, in units of 128 KiB
MaxCommands == 3      \* startup commands of a connection
MaxMessages == 4      \* messages the server sends on a channel before it closes

SessionIds == 1..MaxSessions

(***************************************************************************)
(* Option<String> and the secret references of the catalog.                *)
(***************************************************************************)
NoRef == "none"
NoMaster == "none"
SecretRefs == {"s1", "s2"}
SecretValues == {"pw1", "pw2"}
Masters == {NoMaster, "m1"}

\* Option<Uuid> and Option<DateTime<Utc>> of a connection.
NoUuid == 0
NoTime == -1

Password(ref) == [type |-> "Password", ref |-> ref]

\* connection.rs AuthMethod: every variant, with each Option both ways.
AuthMethod ==
    [type : {"Password"}, ref : SecretRefs]
    \cup [type : {"Key", "Certificate"}, ref : SecretRefs \cup {NoRef}]
    \cup [type : {"Agent", "KeyboardInteractive"}, ref : {NoRef}]

\* connection.rs ProxyConfig, reduced to the field connect resolves.
NoProxy == [present |-> FALSE, password_ref |-> NoRef]
ProxyConfig ==
    {NoProxy} \cup [present : {TRUE}, password_ref : SecretRefs \cup {NoRef}]

SeqsUpTo(S, n) == UNION {[1..k -> S] : k \in 0..n}

\* connection.rs Connection, reduced to the fields connect reads.
Connection ==
    [auth_method : AuthMethod,
     jump_hosts : SeqsUpTo([auth_method : AuthMethod], MaxJumps),
     proxy : ProxyConfig]

(***************************************************************************)
(* KeychainManager::get_secret.                                            *)
(***************************************************************************)
SomeSecret(value) == [tag |-> "Some", value |-> value]
NoSecret == [tag |-> "None", value |-> NoRef]
SecretErr(msg) == [tag |-> "Err", value |-> msg]
SecretOk == [tag |-> "Ok", value |-> NoRef]

\* HashMap<String, String>, and the entries of the keyring: a function on
\* the ids it holds.
EmptyMap == [id \in {} |-> NoRef]

Insert(map, id, value) ==
    [k \in DOMAIN map \cup {id} |-> IF k = id THEN value ELSE map[k]]

Remove(map, id) == [k \in DOMAIN map \ {id} |-> map[k]]

\* read_fallback(master).unwrap_or_default(): a file that does not exist or
\* does not decrypt under this master reads as the empty map.
ReadFallback(master) ==
    IF master = vault.file_master THEN vault.file ELSE EmptyMap

\* get_secret; up tells whether the keyring can be reached by this call.
GetSecretWith(id, master, up) ==
    IF up /\ id \in DOMAIN vault.keyring
    THEN SomeSecret(vault.keyring[id])
    ELSE IF vault.fallback_enabled
         THEN IF master = NoMaster
              THEN SecretErr("encryption error: master password required")
              ELSE IF id \in DOMAIN ReadFallback(master)
                   THEN SomeSecret(ReadFallback(master)[id])
                   ELSE NoSecret
         ELSE NoSecret

\* get_secret of a connect call: the keyring serves what it holds.
GetSecret(id, master) == GetSecretWith(id, master, TRUE)

\* The referenced id is held neither by the keyring nor by the fallback file.
InVault(id) == id \in DOMAIN vault.keyring \cup DOMAIN vault.file

\* The record of a KeychainManager call; last[id] is what the last
\* successful store or delete of id left to be read.
Unset == [tag |-> "Unset", value |-> NoRef]
NoVaultCall ==
    [op |-> "none", id |-> NoRef, master |-> NoMaster, up |-> FALSE,
     ret |-> Unset, last |-> [id \in SecretRefs |-> Unset]]

Called(op, id, master, up, ret, left) ==
    [op |-> op, id |-> id, master |-> master, up |-> up, ret |-> ret,
     last |-> IF ret.tag = "Ok" /\ id \in DOMAIN vaultCall.last
              THEN [vaultCall.last EXCEPT ![id] = left]
              ELSE vaultCall.last]

\* store_secret: the keyring takes the secret and the call returns; only
\* when the keyring fails the secret goes into the fallback file. The
\* result of the call and the vault it leaves.
StoreOutcome(id, secret, master, up) ==
    IF up
    THEN [ret |-> SecretOk,
          vault |-> [vault EXCEPT !.keyring = Insert(@, id, secret)]]
    ELSE IF vault.fallback_enabled
         THEN IF master = NoMaster
              THEN [ret |-> SecretErr("encryption error: master password required"),
                    vault |-> vault]
              ELSE [ret |-> SecretOk,
                    vault |-> [vault EXCEPT
                                  !.file = Insert(ReadFallback(master),
                                                  id, secret),
                                  !.file_master = master]]
         ELSE [ret |-> SecretErr("keyring error: store failed"),
               vault |-> vault]

StoreSecret(id, secret, master, up) ==
    /\ LET s == StoreOutcome(id, secret, master, up)
       IN /\ vault' = s.vault
          /\ vaultCall' = Called("store", id, master, up, s.ret,
                                 IF s.ret.tag = "Ok" THEN SomeSecret(secret)
                                 ELSE Unset)
    /\ UNCHANGED <<touch, inner, ops, chan, startup, dial, fileOps, catalog, kh, glob, calls, sessions, transports,
                   bus, subscribed, rx, disc, xferVars>>

\* delete_secret: the result of the keyring's delete is dropped; with the
\* fallback enabled the id is removed from the file.
DeleteSecret(id, master, up) ==
    /\ LET keyring == IF up THEN Remove(vault.keyring, id)
                            ELSE vault.keyring
       IN IF vault.fallback_enabled
          THEN IF master = NoMaster
               THEN /\ vault' = [vault EXCEPT !.keyring = keyring]
                    /\ vaultCall' =
                           Called("delete", id, master, up,
                                  SecretErr("encryption error: master password required"),
                                  Unset)
               ELSE /\ vault' = [vault EXCEPT
                                    !.keyring = keyring,
                                    !.file = Remove(ReadFallback(master), id),
                                    !.file_master = master]
                    /\ vaultCall' = Called("delete", id, master, up, SecretOk, NoSecret)
          ELSE /\ vault' = [vault EXCEPT !.keyring = keyring]
               /\ vaultCall' = Called("delete", id, master, up, SecretOk, NoSecret)
    /\ UNCHANGED <<touch, inner, ops, chan, startup, dial, fileOps, catalog, kh, glob, calls, sessions, transports, bus, subscribed, rx, disc,
                   xferVars>>

\* Two callers of the vault (threads of the application, or two instances of
\* it on the same file), each with an id of its own.
Callers == {1, 2}
CallerId(p) == IF p = 1 THEN "s1" ELSE "s2"

NoFileOp == [pc |-> "idle", op |-> "none", id |-> NoRef, secret |-> NoRef,
             master |-> NoMaster, map |-> EmptyMap]

\* store_secret or delete_secret up to read_fallback: the keyring did not
\* take the secret (store), the file is read into the caller's map.
FallbackRead(p, op, secret, master) ==
    /\ fileOps[p].pc \in {"idle", "done"}
    /\ vault.fallback_enabled
    /\ master # NoMaster
    /\ fileOps' = [fileOps EXCEPT
                      ![p] = [pc |-> "read", op |-> op, id |-> CallerId(p),
                              secret |-> IF op = "store" THEN secret
                                         ELSE NoRef,
                              master |-> master,
                              map |-> ReadFallback(master)]]
    /\ UNCHANGED <<touch, inner, ops, chan, startup, dial, catalog, kh, glob, vault, vaultCall, calls, sessions,
                   transports, bus, subscribed, rx, disc, xferVars>>

\* map.insert or map.remove, then write_fallback: the file becomes the
\* caller's map.
FallbackWrite(p) ==
    /\ fileOps[p].pc = "read"
    /\ LET f == fileOps[p]
           map == IF f.op = "store" THEN Insert(f.map, f.id, f.secret)
                                    ELSE Remove(f.map, f.id)
       IN /\ vault' = [vault EXCEPT !.file = map, !.file_master = f.master]
          /\ fileOps' = [fileOps EXCEPT ![p].pc = "done", ![p].map = map]
    /\ UNCHANGED <<touch, inner, ops, chan, startup, dial, catalog, kh, glob, vaultCall, calls, sessions, transports,
                   bus, subscribed, rx, disc, xferVars>>

\* A get_secret call of the application.
GetCall(id, master, up) ==
    /\ vaultCall' = [vaultCall EXCEPT !.op = "get", !.id = id,
                                      !.master = master, !.up = up,
                                      !.ret = GetSecretWith(id, master, up)]
    /\ UNCHANGED <<touch, inner, ops, chan, startup, dial, fileOps, catalog, kh, glob, vault, calls, sessions,
                   transports, bus, subscribed, rx, disc, xferVars>>

(***************************************************************************)
(* CoreError and SessionManager::map_auth / build_ssh_config.              *)
(***************************************************************************)
CoreError(kind, msg) == [ok |-> FALSE, kind |-> kind, msg |-> msg]

\* err.to_string(): the #[error("...")] format of the variant (error.rs:4-15),
\* as the pieces of the resulting string.
Display(err) ==
    CASE err.kind = "Database" -> <<"database error: ", err.msg>>
      [] err.kind = "Io" -> <<"io error: ", err.msg>>
      [] err.kind = "Ssh" -> <<"ssh error: ", err.msg>>
      [] err.kind = "Invalid" -> <<"invalid data: ", err.msg>>
      [] OTHER -> <<"not found">>
Resolved(v) == [ok |-> TRUE, value |-> v]

\* Option<Zeroizing<String>> of a resolved passphrase or proxy password.
OptSecret(ref, master) ==
    IF ref = NoRef
    THEN Resolved(NoRef)
    ELSE LET g == GetSecret(ref, master)
         IN IF g.tag = "Err"
            THEN CoreError("Invalid", g.value)
            ELSE Resolved(g.value)

MapAuth(auth, master) ==
    CASE auth.type = "Password" ->
            LET g == GetSecret(auth.ref, master)
            IN IF g.tag = "Err" THEN CoreError("Invalid", g.value)
               ELSE IF g.tag = "None" THEN CoreError("Invalid", "missing password")
               ELSE Resolved([type |-> "Password", secret |-> g.value])
      [] auth.type \in {"Key", "Certificate"} ->
            LET p == OptSecret(auth.ref, master)
            IN IF p.ok
               THEN Resolved([type |-> auth.type, secret |-> p.value])
               ELSE p
      [] OTHER -> Resolved([type |-> auth.type, secret |-> NoRef])

\* jump_hosts.iter().map(map_jump_host).collect::<Result<Vec<_>, _>>():
\* the hosts are resolved in order and the first error is the result.
RECURSIVE MapJumpHosts(_, _)
MapJumpHosts(jumps, master) ==
    IF jumps = <<>>
    THEN Resolved(<<>>)
    ELSE LET h == MapAuth(Head(jumps).auth_method, master)
         IN IF ~h.ok
            THEN h
            ELSE LET rest == MapJumpHosts(Tail(jumps), master)
                 IN IF ~rest.ok
                    THEN rest
                    ELSE Resolved(<<[auth_method |-> h.value]>> \o rest.value)

BuildSshConfigWithAuth(conn, auth, master) ==
    LET jumps == MapJumpHosts(conn.jump_hosts, master)
    IN IF ~jumps.ok
       THEN jumps
       ELSE LET pw == IF conn.proxy.present
                      THEN OptSecret(conn.proxy.password_ref, master)
                      ELSE Resolved(NoRef)
            IN IF ~pw.ok
               THEN pw
               ELSE Resolved([auth_method |-> auth,
                              jump_hosts |-> jumps.value,
                              proxy |-> [present |-> conn.proxy.present,
                                         password |-> pw.value],
                              keepalive_max |-> 3])

BuildSshConfig(conn, master) ==
    LET auth == MapAuth(conn.auth_method, master)
    IN IF ~auth.ok
       THEN auth
       ELSE BuildSshConfigWithAuth(conn, auth.value, master)

(***************************************************************************)
(* Events.                                                                 *)
(***************************************************************************)
SessionStateChanged(id, state) ==
    [type |-> "SessionStateChanged", id |-> id, state |-> state]

\* EventBus::send: the event is appended to the broadcast ring; without a
\* receiver the send fails and the error is ignored.
Send(log, event) == IF subscribed THEN Append(log, event) ELSE log

\* broadcast::channel(capacity): the ring has the next power of two slots.
RECURSIVE PowerOfTwoFrom(_, _)
PowerOfTwoFrom(p, n) == IF p >= n THEN p ELSE PowerOfTwoFrom(2 * p, n)

RingSize(capacity) == PowerOfTwoFrom(1, capacity)

\* The oldest position the ring still holds.
Oldest(log) ==
    IF Len(log) > RingSize(BusCapacity)
    THEN Len(log) - RingSize(BusCapacity) + 1 ELSE 1

\* EventBus::subscribe before the first send: the receiver starts at the
\* first position.
NewReceiver == [next |-> 1, got |-> <<>>, missed |-> 0]

\* run_app, the event_rx.recv() arm: an event is handled; a Lagged result
\* moves the receiver to the oldest event the ring holds and is dropped.
Recv ==
    /\ subscribed
    /\ rx.next <= Len(bus)
    /\ rx' = IF rx.next < Oldest(bus)
             THEN [rx EXCEPT !.next = Oldest(bus),
                             !.missed = @ + (Oldest(bus) - rx.next)]
             ELSE [rx EXCEPT !.next = @ + 1,
                             !.got = Append(@, bus[rx.next])]
    /\ UNCHANGED <<touch, inner, ops, chan, startup, dial, vault, vaultCall, fileOps, catalog, kh, glob, calls, sessions, transports, bus, subscribed, disc,
                   xferVars>>

(***************************************************************************)
(* SshClient::connect: the chain is jump_hosts ++ [final]; the link that   *)
(* fails and why are the environment's choice.                             *)
(***************************************************************************)
SshFailures == {"transport", "hostkey", "auth"}

ChainLen(cfg) == Len(cfg.jump_hosts) + 1

SshOk == [ok |-> TRUE, link |-> 0, reason |-> "none"]

SshOutcome ==
    {SshOk}
    \cup [ok : {FALSE}, link : 1..(MaxJumps + 1), reason : SshFailures]

SshOutcomes(cfg) ==
    {o \in SshOutcome : o.link <= ChainLen(cfg)}

(***************************************************************************)
(* The connect calls.                                                      *)
(***************************************************************************)
NoConn == [auth_method |-> [type |-> "Agent", ref |-> NoRef],
           jump_hosts |-> <<>>,
           proxy |-> NoProxy]
NoOutcome == [ok |-> FALSE, link |-> 0, reason |-> "none"]
Pending == [ok |-> FALSE, kind |-> "pending", msg |-> "none"]
OkResult == [ok |-> TRUE, kind |-> "Ok", msg |-> "none"]

\* A connect call that has not been made yet.
Idle == [pc |-> "idle", conn |-> NoConn, master |-> NoMaster,
         cfg |-> Pending, outcome |-> NoOutcome, result |-> Pending,
         connection_id |-> NoUuid, password |-> NoRef, save |-> FALSE,
         saved |-> Pending]

\* connect() was called for this slot.
Started == {id \in SessionIds : calls[id].pc # "idle"}

\* Uuid::new_v4() ran for this slot (session.rs:125): the config was built.
Generated == {id \in Started : calls[id].cfg.ok}

\* Slots are taken in call order; the slot number stands for the fresh Uuid.
Fresh(id) ==
    /\ calls[id].pc = "idle"
    /\ \A j \in SessionIds : j < id => calls[j].pc # "idle"

(***************************************************************************)
(* The registry: HashMap<Uuid, SessionHandle> behind a parking_lot Mutex.  *)
(***************************************************************************)
SessionHandle(id, state) == [id |-> id, state |-> state]

\* A faulty insert that stores nothing.
RegistryInsertNothing(map, id, handle) == map

RegistryInsert(map, id, handle) ==
    [k \in DOMAIN map \cup {id} |-> IF k = id THEN handle ELSE map[k]]

\* A faulty remove that leaves the handle in place.
RegistryRemoveNothing(map, id) == map

RegistryRemove(map, id) ==
    [k \in DOMAIN map \ {id} |-> map[k]]

\* get_session(id): Some(handle) or None.
NoHandle == SessionHandle(0, "None")
GetSession(id) ==
    IF id \in DOMAIN sessions THEN sessions[id] ELSE NoHandle

\* list_sessions(): the handles of the registry.
ListSessions == {sessions[k] : k \in DOMAIN sessions}

(***************************************************************************)
(* connect -> build_ssh_config -> connect_with_config, up to its first     *)
(* await: the config is built; if that fails the call returns the error    *)
(* before any id is generated; otherwise Connecting is published.          *)
(***************************************************************************)
ConnectBegin(id, conn, master) ==
    /\ Fresh(id)
    /\ LET cfg == BuildSshConfig(conn, master)
       IN IF cfg.ok
          THEN /\ calls' = [calls EXCEPT ![id] =
                               [Idle EXCEPT !.pc = "dialing", !.conn = conn,
                                            !.master = master, !.cfg = cfg]]
               /\ bus' = Send(bus, SessionStateChanged(id, "Connecting"))
          ELSE /\ calls' = [calls EXCEPT ![id] =
                               [Idle EXCEPT !.pc = "done", !.conn = conn,
                                            !.master = master, !.cfg = cfg,
                                            !.result = cfg]]
               /\ bus' = bus
    /\ UNCHANGED <<touch, inner, ops, chan, startup, dial, vault, vaultCall, fileOps, catalog, kh, glob, sessions, transports, disc, subscribed, rx, xferVars>>

\* A faulty match that goes on after an error.
OnSshResultIgnoresError(call, outcome) ==
    [call EXCEPT !.pc = "startup", !.outcome = outcome]

\* session.rs:132-138: the match on SshClient::connect's result.
OnSshResult(call, outcome) ==
    IF outcome.ok
    THEN [call EXCEPT !.pc = "startup", !.outcome = outcome]
    ELSE [call EXCEPT !.pc = "done", !.outcome = outcome,
                      !.result = CoreError("Ssh", outcome.reason)]

\* russh Handle of a freshly authenticated session.
NewTransport == [closed |-> FALSE, unanswered |-> 0]

SshConnect(id, outcome) ==
    /\ id \in SessionIds
    /\ calls[id].pc = "dialing"
    /\ outcome \in SshOutcomes(calls[id].cfg.value)
    /\ calls' = [calls EXCEPT ![id] = OnSshResult(calls[id], outcome)]
    /\ transports' = IF outcome.ok
                     THEN [k \in DOMAIN transports \cup {id} |->
                              IF k = id THEN NewTransport ELSE transports[k]]
                     ELSE transports
    /\ UNCHANGED <<touch, inner, ops, chan, startup, dial, vault, vaultCall, fileOps, catalog, kh, glob, sessions, bus, disc, subscribed, rx, xferVars>>

(***************************************************************************)
(* SshClient::connect, link by link (client.rs:56-109): the loop over      *)
(* chain = jump_hosts ++ [final], cut at its awaits.                       *)
(***************************************************************************)
\* SshSession: the final handle and the jump handles; none before the end.
NoSshSession == [handle |-> 0, jump_handles |-> <<>>]

\* The loop before its first iteration: idx is the link in work (from 1),
\* jump_handles the handles pushed so far (each named by its link), via the
\* carrier of each transport that was opened (0 is the socket), steps what
\* the loop did, in order.
NoDial == [idx |-> 1, phase |-> "transport", jump_handles |-> <<>>,
           via |-> <<>>, steps |-> <<>>, session |-> NoSshSession]

\* A call stands inside SshClient::connect.
Dialing(id) == calls[id].pc = "dialing" /\ dial[id].phase # "returned"

\* jump_handles.last_mut(): the handle the next link is tunnelled through;
\* the first link goes over the socket.
Carrier(d) ==
    IF d.idx = 1 THEN 0 ELSE d.jump_handles[Len(d.jump_handles)]

\* An `?` of the loop: connect returns the error, the handles are dropped.
DialFail(id, reason) ==
    /\ dial' = [dial EXCEPT ![id].phase = "returned",
                            ![id].jump_handles = <<>>,
                            ![id].steps = Append(@, <<reason, "failed",
                                                      dial[id].idx>>)]
    /\ calls' = [calls EXCEPT ![id] =
                    OnSshResult(calls[id],
                                [ok |-> FALSE, link |-> dial[id].idx,
                                 reason |-> reason])]
    /\ transports' = transports

\* connect_socket, or channel_open_direct_tcpip on the previous handle.
OpenTransport(id, ok) ==
    /\ id \in SessionIds
    /\ Dialing(id)
    /\ dial[id].phase = "transport"
    /\ IF ok
       THEN /\ dial' = [dial EXCEPT
                           ![id].phase = "hostkey",
                           ![id].via = Append(@, Carrier(dial[id])),
                           ![id].steps = Append(@, <<"transport", "ok",
                                                     dial[id].idx>>)]
            /\ UNCHANGED <<calls, transports>>
       ELSE DialFail(id, "transport")
    /\ UNCHANGED <<touch, inner, ops, chan, startup, vault, vaultCall, fileOps, catalog, kh, glob, sessions,
                   bus, disc, subscribed, rx, xferVars>>

\* client::connect_stream: the handshake, which asks check_server_key.
VerifyHostKey(id, ok) ==
    /\ id \in SessionIds
    /\ Dialing(id)
    /\ dial[id].phase = "hostkey"
    /\ IF ok
       THEN /\ dial' = [dial EXCEPT
                           ![id].phase = "auth",
                           ![id].steps = Append(@, <<"hostkey", "ok",
                                                     dial[id].idx>>)]
            /\ UNCHANGED <<calls, transports>>
       ELSE DialFail(id, "hostkey")
    /\ UNCHANGED <<touch, inner, ops, chan, startup, vault, vaultCall, fileOps, catalog, kh, glob, sessions,
                   bus, disc, subscribed, rx, xferVars>>

\* A faulty loop that goes on after a failed authentication.
AuthenticatedAnyway(ok) == TRUE

\* authenticate(...).await?
Authenticated(ok) == ok

\* authenticate, jump_handles.push(handle); after the last link the final
\* handle is popped and the session returned.
Authenticate(id, ok) ==
    /\ id \in SessionIds
    /\ Dialing(id)
    /\ dial[id].phase = "auth"
    /\ LET d == dial[id]
           pushed == Append(d.jump_handles, d.idx)
           steps == Append(d.steps, <<"auth", IF ok THEN "ok" ELSE "failed",
                                      d.idx>>)
       IN IF ~Authenticated(ok)
          THEN DialFail(id, "auth")
          ELSE IF d.idx < ChainLen(calls[id].cfg.value)
               THEN /\ dial' = [dial EXCEPT
                                   ![id].idx = d.idx + 1,
                                   ![id].phase = "transport",
                                   ![id].jump_handles = pushed,
                                   ![id].steps = steps]
                    /\ UNCHANGED <<calls, transports>>
               ELSE /\ dial' = [dial EXCEPT
                                   ![id].phase = "returned",
                                   ![id].jump_handles = <<>>,
                                   ![id].steps = steps,
                                   ![id].session =
                                       [handle |-> pushed[Len(pushed)],
                                        jump_handles |->
                                            SubSeq(pushed, 1,
                                                   Len(pushed) - 1)]]
                    /\ calls' = [calls EXCEPT ![id] =
                                    OnSshResult(calls[id], SshOk)]
                    /\ transports' =
                           [k \in DOMAIN transports \cup {id} |->
                               IF k = id THEN NewTransport
                               ELSE transports[k]]
    /\ UNCHANGED <<touch, inner, ops, chan, startup, vault, vaultCall, fileOps, catalog, kh, glob, sessions,
                   bus, disc, subscribed, rx, xferVars>>

\* session.rs:139: let _ = session.send_startup_commands().await
SendStartupCommands(id) ==
    /\ id \in SessionIds
    /\ calls[id].pc = "startup"
    /\ calls' = [calls EXCEPT ![id].pc = "register"]
    /\ UNCHANGED <<touch, inner, ops, chan, startup, dial, vault, vaultCall, fileOps, catalog, kh, glob, sessions, transports, bus, disc, subscribed, rx, xferVars>>

\* How an exec of a startup command ends: Ok((0, _)), Ok((status, _)) with
\* a status other than 0, or Err (the channel could not be opened, the exec
\* request failed).
ExecEnds == {"zero", "nonzero", "error"}

NoStartup == [commands |-> <<>>, ran |-> <<>>, ok |-> TRUE, returned |-> FALSE]

\* The for loop of send_startup_commands from command i on
\* (client.rs:200-202): `self.exec(&cmd).await?`.
RECURSIVE StartupFrom(_, _)
StartupFrom(commands, i) ==
    IF i > Len(commands)
    THEN [ran |-> <<>>, ok |-> TRUE]
    ELSE IF commands[i] = "error"
         THEN [ran |-> <<i>>, ok |-> FALSE]
         ELSE LET rest == StartupFrom(commands, i + 1)
              IN [ran |-> <<i>> \o rest.ran, ok |-> rest.ok]

\* session.rs:139 with the startup commands of the config: the result of
\* send_startup_commands is dropped and connect goes on.
RunStartupCommands(id, commands) ==
    /\ id \in SessionIds
    /\ calls[id].pc = "startup"
    /\ calls' = [calls EXCEPT ![id].pc = "register"]
    /\ LET run == StartupFrom(commands, 1)
       IN startup' = [startup EXCEPT
                         ![id] = [commands |-> commands, ran |-> run.ran,
                                  ok |-> run.ok, returned |-> TRUE]]
    /\ UNCHANGED <<touch, inner, ops, chan, dial, vault, vaultCall, fileOps, catalog, kh, glob,
                   sessions, transports, bus, disc, subscribed, rx,
                   xferVars>>

\* session.rs:141-151: the handle is inserted and the lock released.
Register(id) ==
    /\ id \in SessionIds
    /\ calls[id].pc = "register"
    /\ sessions' = RegistryInsert(sessions, id, SessionHandle(id, "Connected"))
    /\ calls' = [calls EXCEPT ![id].pc = "announce"]
    /\ UNCHANGED <<touch, inner, ops, chan, startup, dial, vault, vaultCall, fileOps, catalog, kh, glob, transports, bus, disc, subscribed, rx, xferVars>>

\* The task of session.rs:161-167: not spawned; spawned for conn_id; past
\* get_connection with the connection it read; done.
NoTouch == [pc |-> "none", conn_id |-> NoUuid, conn |-> <<>>]

Spawned(conn_id) == [NoTouch EXCEPT !.pc = "spawned", !.conn_id = conn_id]

\* session.rs:153-169: Connected is published, the task that records
\* last_connected_at is spawned for conn.id, and the id is returned.
Announce(id) ==
    /\ id \in SessionIds
    /\ calls[id].pc = "announce"
    /\ bus' = Send(bus, SessionStateChanged(id, "Connected"))
    /\ calls' = [calls EXCEPT ![id].pc = "done", ![id].result = OkResult]
    /\ touch' = [touch EXCEPT ![id] = Spawned(calls[id].connection_id)]
    /\ UNCHANGED <<inner, ops, chan, startup, dial, vault, vaultCall, fileOps, catalog, kh, glob, sessions, transports, disc, subscribed, rx, xferVars>>

(***************************************************************************)
(* disconnect(id): the whole body runs under the registry lock.            *)
(***************************************************************************)
\* The connect call of id has put its handle into the registry.
Registered(id) ==
    /\ calls[id].pc \in {"announce", "done"}
    /\ calls[id].outcome.ok

DisconnectBus(log, map, id) ==
    IF id \in DOMAIN map
    THEN Send(log, SessionStateChanged(id, "Disconnected"))
    ELSE log

Disconnect(id) ==
    /\ id \in Generated
    /\ sessions' = RegistryRemove(sessions, id)
    /\ bus' = DisconnectBus(bus, sessions, id)
    /\ disc' = [disc EXCEPT ![id] =
                   IF ~Registered(id) THEN @ ELSE IF @ = 0 THEN 1 ELSE 2]
    /\ UNCHANGED <<touch, inner, ops, chan, startup, dial, vault, vaultCall, fileOps, catalog, kh, glob, calls, transports, subscribed, rx, xferVars>>

(***************************************************************************)
(* Keepalives of the transport (client.rs:289-295): keepalive_max = 3.     *)
(* After that many keepalives without a reply the handle closes itself.    *)
(***************************************************************************)
KeepaliveMax == 3

KeepaliveUnanswered(id) ==
    /\ id \in DOMAIN transports
    /\ ~transports[id].closed
    /\ LET n == transports[id].unanswered + 1
       IN transports' = [transports EXCEPT ![id] =
                            [closed |-> n >= KeepaliveMax, unanswered |-> n]]
    /\ UNCHANGED <<touch, inner, ops, chan, startup, dial, vault, vaultCall, fileOps, catalog, kh, glob, calls, sessions, bus, disc, subscribed, rx, xferVars>>

KeepaliveAnswered(id) ==
    /\ id \in DOMAIN transports
    /\ ~transports[id].closed
    /\ transports[id].unanswered > 0
    /\ transports' = [transports EXCEPT ![id].unanswered = 0]
    /\ UNCHANGED <<touch, inner, ops, chan, startup, dial, vault, vaultCall, fileOps, catalog, kh, glob, calls, sessions, bus, disc, subscribed, rx, xferVars>>

(***************************************************************************)
(* TransferQueue (transfer.rs). Sizes are counted in units of 128 KiB.     *)
(***************************************************************************)
Capacity == 32       \* mpsc::channel::<TransferJob>(32)
BufferUnits == 2     \* TransferConfig.buffer_size default, 256 KiB
EmitUnits == 2       \* update_progress: bytes_since >= 256 * 1024

\* The slots of the jobs handed to enqueue so far.
JobIds == DOMAIN jobs

Min(a, b) == IF a <= b THEN a ELSE b
Range(q) == {q[i] : i \in DOMAIN q}

\* TransferFile: the size the caller declared, the bytes the source really
\* holds, is_dir, and the length of what the destination path held before
\* (old, 0 for a path that did not exist).
TransferFile(size, actual, is_dir) ==
    [size |-> size, actual |-> actual, is_dir |-> is_dir, old |-> 0]

\* The same file, sent to a path that already holds old units.
Overwriting(file, old) == [file EXCEPT !.old = old]

\* TransferProgress::default()
NoProgress == [bytes_transferred |-> 0, bytes_total |-> 0,
               files_completed |-> 0, files_total |-> 0, current_file |-> 0]

\* What is recorded about the run of a job, beside the fields of the code:
\* begun, the files whose turn of the loop began, in that order; absent,
\* those of them that began while the session was not registered; sftp,
\* those an SFTP channel was opened for; moved, those with bytes
\* transferred; bumped, those files_completed was advanced for; written,
\* per file whose copy ended, whether the destination now holds the bytes
\* read from the source; failed_at, the file the job failed in; final, the
\* position in the event stream of the event sent with the final state.
NoRun == [begun |-> <<>>, absent |-> {}, sftp |-> {}, moved |-> {},
          bumped |-> {}, written |-> <<>>, failed_at |-> 0, final |-> 0]

\* A job as its caller builds it: TransferState::Queued, default progress.
\* error is the string of TransferState::Failed, empty in the other states.
NoJob == [call |-> "idle", full |-> FALSE, closed |-> FALSE,
          ret |-> Pending,
          source |-> "Local", dest |-> "Local", session_id |-> 0,
          files |-> <<>>, verify_checksum |-> FALSE, replace |-> TRUE,
          state |-> "Queued", error |-> <<>>, progress |-> NoProgress,
          run |-> NoRun]

\* options.overwrite is OverwriteMode::Replace, as the callers in the
\* terminal interface set it.
JobShape(source, dest, sid, files, verify) ==
    [source |-> source, dest |-> dest, session_id |-> sid, files |-> files,
     verify_checksum |-> verify, replace |-> TRUE]

\* The same job with another OverwriteMode than Replace.
KeepExisting(shape) == [shape EXCEPT !.replace = FALSE]

\* The job of the queue specification: one local file copied locally.
SimpleJob ==
    JobShape("Local", "Local", 0, <<TransferFile(1, 1, FALSE)>>, FALSE)

\* The jobs of the transfer specification.
JobShapes ==
    {SimpleJob,
     JobShape("Local", "Remote", 1,
              <<TransferFile(0, 0, TRUE),
                TransferFile(MaxFileUnits, MaxFileUnits, FALSE)>>, TRUE),
     JobShape("Remote", "Local", 1, <<TransferFile(2, 2, FALSE)>>, FALSE),
     JobShape("Remote", "Remote", 1, <<TransferFile(1, 1, FALSE)>>, FALSE),
     JobShape("Local", "Local", 0, <<>>, FALSE)}

\* The files of the single-job specification: a directory whose entry has
\* size 0 and one whose entry has a size, a file as large as declared, one
\* that grew and one that shrank since it was listed, and a file sent onto
\* a longer one.
EmptyDir == TransferFile(0, 0, TRUE)
SizedDir == TransferFile(1, 0, TRUE)
WholeFile == TransferFile(MaxFileUnits, MaxFileUnits, FALSE)
GrownFile == TransferFile(1, 2, FALSE)
ShrunkFile == TransferFile(2, 1, FALSE)
OntoLonger == Overwriting(TransferFile(1, 1, FALSE), 2)

JobFileLists ==
    {<<>>, <<EmptyDir>>, <<SizedDir>>, <<WholeFile>>, <<GrownFile>>,
     <<ShrunkFile>>, <<OntoLonger>>,
     <<EmptyDir, WholeFile>>, <<WholeFile, OntoLonger>>,
     <<OntoLonger, WholeFile>>, <<GrownFile, ShrunkFile>>}

\* The jobs of the single-job specification: every pair of endpoints, every
\* file list, with and without verify_checksum; uploads also with an
\* OverwriteMode other than Replace.
JobInputs ==
    LET plain == {JobShape(src, dst, IF "Remote" \in {src, dst} THEN 1 ELSE 0,
                           files, verify) :
                     src \in {"Local", "Remote"}, dst \in {"Local", "Remote"},
                     files \in JobFileLists,
                     verify \in BOOLEAN}
    IN plain \cup {KeepExisting(sh) :
                      sh \in {x \in plain : /\ x.source = "Local"
                                             /\ x.dest = "Remote"}}

TransferProgress(j, progress) ==
    [type |-> "TransferProgress", id |-> j, progress |-> progress]

\* Slots are taken in call order; the slot number stands for job.id.
FreshJob(j) == j = Len(jobs) + 1

RECURSIVE SumSizes(_)
SumSizes(files) ==
    IF files = <<>> THEN 0 ELSE Head(files).size + SumSizes(Tail(files))

(***************************************************************************)
(* enqueue: self.sender.send(job).await on the bounded channel.            *)
(***************************************************************************)
\* Sender::send on a bounded channel: an error when the receiver is closed,
\* at once when a slot is free, and otherwise the caller is suspended.
\* What try_send would do instead: an error at once when no slot is free.
SendOutcomeTrySend(closed, free) ==
    IF closed \/ free = 0 THEN "err" ELSE "ok"

SendOutcome(closed, free) ==
    IF closed THEN "err"
    ELSE IF free > 0 THEN "ok"
    ELSE "waiting"

\* enqueue's map_err: CoreError::Invalid(e.to_string())
ChannelClosed == CoreError("Invalid", "channel closed")

Enqueue(j, shape) ==
    /\ FreshJob(j)
    /\ LET how == SendOutcome(rxClosed, permits)
           job == [NoJob EXCEPT !.call = how,
                                !.full = (Len(queue) = Capacity),
                                !.closed = rxClosed,
                                !.ret = CASE how = "ok" -> OkResult
                                          [] how = "err" -> ChannelClosed
                                          [] OTHER -> Pending,
                                !.source = shape.source,
                                !.dest = shape.dest,
                                !.session_id = shape.session_id,
                                !.files = shape.files,
                                !.verify_checksum = shape.verify_checksum,
                                !.replace = shape.replace]
       IN /\ jobs' = Append(jobs, job)
          /\ queue' = IF how = "ok" THEN Append(queue, j) ELSE queue
          /\ accepted' = IF how = "ok" THEN Append(accepted, j) ELSE accepted
          /\ permits' = IF how = "ok" THEN permits - 1 ELSE permits
          /\ waiting' = IF how = "waiting" THEN Append(waiting, j) ELSE waiting
    /\ UNCHANGED <<granted, rxClosed, worker, startOrder>>
    /\ UNCHANGED <<touch, inner, ops, chan, startup, dial, vault, vaultCall, fileOps, catalog, kh, glob, calls, sessions, transports, bus, subscribed, rx, disc>>

\* A suspended caller that was handed a slot completes its send. If the
\* receiver closed in between, the send either still succeeds (the job is
\* dropped with the channel) or reports the closed channel.
EnqueueResume(j, sent) ==
    /\ j \in granted
    /\ sent \/ rxClosed
    /\ granted' = granted \ {j}
    /\ jobs' = [jobs EXCEPT ![j].call = IF sent THEN "ok" ELSE "err",
                            ![j].ret = IF sent THEN OkResult ELSE ChannelClosed]
    /\ queue' = IF sent /\ ~rxClosed THEN Append(queue, j) ELSE queue
    /\ accepted' = IF sent /\ ~rxClosed THEN Append(accepted, j) ELSE accepted
    /\ UNCHANGED <<permits, waiting, rxClosed, worker, startOrder>>
    /\ UNCHANGED <<touch, inner, ops, chan, startup, dial, vault, vaultCall, fileOps, catalog, kh, glob, calls, sessions, transports, bus, subscribed, rx, disc>>

(***************************************************************************)
(* The worker task: while let Some(job) = rx.recv().await { ... }          *)
(***************************************************************************)
\* last_emit: the time that has passed since *last_emit, in units of
\* 125 ms (now.duration_since(*last_emit)).
WorkerIdle == [pc |-> "idle", job |-> 0, idx |-> 0, left |-> 0,
               last_bytes |-> 0, last_emit |-> 0, result |-> OkResult]

\* rx.recv(): the oldest job of the channel.
\* A faulty receive that takes the newest job.
DequeueLast(q) == q[Len(q)]

Dequeue(q) == Head(q)

\* Duration::from_millis(250), in units of 125 ms.
EmitTicks == 2

\* A faulty rule that sends the event only when both thresholds are passed.
ShouldEmitBoth(progress, last_bytes, force, tick) ==
    \/ force
    \/ progress.bytes_transferred - last_bytes >= EmitUnits /\ tick

\* update_progress: the event is sent when forced, when EmitUnits were
\* transferred since the last event, or when 250 ms have passed (tick).
ShouldEmit(progress, last_bytes, force, tick) ==
    \/ force
    \/ progress.bytes_transferred - last_bytes >= EmitUnits
    \/ tick

\* since: now.duration_since(*last_emit). On an emission *last_emit = now
\* and *last_bytes = bytes_transferred; otherwise both stay.
UpdateProgress(log, j, progress, last_bytes, force, since) ==
    IF ShouldEmit(progress, last_bytes, force, since >= EmitTicks)
    THEN [bus |-> Send(log, TransferProgress(j, progress)),
          last_bytes |-> progress.bytes_transferred,
          last_emit |-> 0]
    ELSE [bus |-> log, last_bytes |-> last_bytes, last_emit |-> since]

\* transfer.rs:99-101 and 135-142: a job is taken, set InProgress, its totals
\* are computed and the first event is sent. Taking a job frees a slot, which
\* goes to the oldest suspended caller if there is one.
WorkerRecv ==
    /\ worker.pc = "idle"
    /\ ~rxClosed
    /\ queue # <<>>
    /\ LET j == Dequeue(queue)
           progress == [jobs[j].progress EXCEPT
                           !.bytes_total = SumSizes(jobs[j].files),
                           !.files_total = Len(jobs[j].files)]
           up == UpdateProgress(bus, j, progress, 0, TRUE, 0)
       IN /\ queue' = Tail(queue)
          /\ IF waiting # <<>>
             THEN /\ waiting' = Tail(waiting)
                  /\ granted' = granted \cup {Head(waiting)}
                  /\ permits' = permits
                  /\ jobs' = [jobs EXCEPT ![j].state = "InProgress",
                                          ![j].progress = progress,
                                          ![Head(waiting)].call = "granted"]
             ELSE /\ waiting' = waiting
                  /\ granted' = granted
                  /\ permits' = permits + 1
                  /\ jobs' = [jobs EXCEPT ![j].state = "InProgress",
                                          ![j].progress = progress]
          /\ bus' = up.bus
          /\ worker' = [WorkerIdle EXCEPT
                           !.pc = IF jobs[j].files = <<>>
                                  THEN "finish" ELSE "file",
                           !.job = j, !.idx = 1,
                           !.last_bytes = up.last_bytes]
          /\ startOrder' = Append(startOrder, j)
    /\ UNCHANGED <<rxClosed, accepted>>
    /\ UNCHANGED <<touch, inner, ops, chan, startup, dial, vault, vaultCall, fileOps, catalog, kh, glob, calls, sessions, transports, subscribed, rx, disc>>

CurrentFile == jobs[worker.job].files[worker.idx]

\* A faulty loop that drops the error and goes on with the next file.
FailGoesOn(w, kind, msg) ==
    [w EXCEPT !.pc = IF w.idx = Len(jobs[w.job].files)
                     THEN "finish" ELSE "file",
              !.idx = @ + 1,
              !.left = 0]

\* A faulty worker that ends with the first error.
FailStopsWorker(w, kind, msg) ==
    [w EXCEPT !.pc = "stopped", !.result = CoreError(kind, msg)]

\* The ? operator in process_job and the copy functions: the first error
\* ends process_job.
Fail(w, kind, msg) ==
    [w EXCEPT !.pc = "finish", !.result = CoreError(kind, msg)]

\* A faulty dispatch that opens SFTP without looking the session up.
DispatchNoLookup(w, job) ==
    CASE job.source = "Remote" /\ job.dest = "Remote" ->
            Fail(w, "Invalid", "remote to remote copy not supported")
      [] job.source = "Local" /\ job.dest = "Local" ->
            [w EXCEPT !.pc = "local"]
      [] OTHER -> [w EXCEPT !.pc = "sftp"]

\* transfer.rs:146-204: current_file is set, an event is sent, and the copy
\* is dispatched on the kinds of the two endpoints.
Dispatch(w, job) ==
    CASE job.source = "Remote" /\ job.dest = "Remote" ->
            Fail(w, "Invalid", "remote to remote copy not supported")
      [] job.source = "Local" /\ job.dest = "Local" ->
            [w EXCEPT !.pc = "local"]
      [] OTHER ->
            IF GetSession(job.session_id) = NoHandle
            THEN Fail(w, "Invalid", "session not found")
            ELSE [w EXCEPT !.pc = "sftp"]

FileBegin ==
    /\ worker.pc = "file"
    /\ LET j == worker.job
           progress == [jobs[j].progress EXCEPT !.current_file = worker.idx]
           up == UpdateProgress(bus, j, progress, worker.last_bytes, TRUE, 0)
           remote == "Remote" \in {jobs[j].source, jobs[j].dest}
           gone == remote /\ GetSession(jobs[j].session_id) = NoHandle
       IN /\ jobs' = [jobs EXCEPT
                         ![j].progress = progress,
                         ![j].run.begun = Append(@, worker.idx),
                         ![j].run.absent =
                             IF gone THEN @ \cup {worker.idx} ELSE @]
          /\ bus' = up.bus
          /\ worker' = [Dispatch(worker, jobs[j]) EXCEPT
                           !.last_bytes = up.last_bytes,
                           !.last_emit = up.last_emit]
    /\ UNCHANGED <<queue, permits, waiting, granted, rxClosed, accepted,
                   startOrder>>
    /\ UNCHANGED <<touch, inner, ops, chan, startup, dial, vault, vaultCall, fileOps, catalog, kh, glob, calls, sessions, transports, subscribed, rx, disc>>

\* A faulty copy that looks the session up again when it opens SFTP.
OpenSftpLooksUp(ok) ==
    /\ worker.pc = "sftp"
    /\ worker' = IF GetSession(jobs[worker.job].session_id) = NoHandle
                 THEN Fail(worker, "Invalid", "session not found")
                 ELSE IF ok
                 THEN [worker EXCEPT
                          !.pc = "copy",
                          !.left = IF CurrentFile.is_dir
                                   THEN 0 ELSE CurrentFile.actual]
                 ELSE Fail(worker, "Ssh", "open_sftp")
    /\ jobs' = [jobs EXCEPT ![worker.job].run.sftp =
                                IF ok THEN @ \cup {worker.idx} ELSE @]
    /\ UNCHANGED <<queue, permits, waiting, granted, rxClosed, accepted,
                   startOrder>>
    /\ UNCHANGED <<touch, inner, ops, chan, startup, dial, vault, vaultCall, fileOps, catalog, kh, glob, calls, sessions, transports, bus, subscribed, rx, disc>>

\* session.session.open_sftp().await
OpenSftp(ok) ==
    /\ worker.pc = "sftp"
    /\ worker' = IF ok
                 THEN [worker EXCEPT
                          !.pc = "copy",
                          !.left = IF CurrentFile.is_dir
                                   THEN 0 ELSE CurrentFile.actual]
                 ELSE Fail(worker, "Ssh", "open_sftp")
    /\ jobs' = [jobs EXCEPT ![worker.job].run.sftp =
                                IF ok THEN @ \cup {worker.idx} ELSE @]
    /\ UNCHANGED <<queue, permits, waiting, granted, rxClosed, accepted,
                   startOrder>>
    /\ UNCHANGED <<touch, inner, ops, chan, startup, dial, vault, vaultCall, fileOps, catalog, kh, glob, calls, sessions, transports, bus, subscribed, rx, disc>>

\* 125 ms pass while the copy awaits an open, a read or a write. The time
\* since *last_emit is only read by the unforced updates of the copy loop,
\* and beyond the threshold more time makes no difference.
Tick ==
    /\ worker.pc \in {"sftp", "copy"}
    /\ worker.last_emit < EmitTicks
    /\ worker' = [worker EXCEPT !.last_emit = @ + 1]
    /\ UNCHANGED <<jobs, queue, permits, waiting, granted, rxClosed, accepted,
                   startOrder>>
    /\ UNCHANGED <<touch, inner, ops, chan, startup, dial, vault, vaultCall, fileOps, catalog, kh, glob, calls, sessions, transports, bus, subscribed, rx, disc>>

\* One turn of the copy loop of copy_local_to_remote / copy_remote_to_local:
\* n units are read and written, and update_progress runs unforced.
CopyChunk(n) ==
    /\ worker.pc = "copy"
    /\ worker.left > 0
    /\ n \in 1..Min(BufferUnits, worker.left)
    /\ LET j == worker.job
           progress == [jobs[j].progress EXCEPT !.bytes_transferred = @ + n]
           up == UpdateProgress(bus, j, progress, worker.last_bytes, FALSE,
                                  worker.last_emit)
       IN /\ jobs' = [jobs EXCEPT ![j].progress = progress,
                                  ![j].run.moved = @ \cup {worker.idx}]
          /\ bus' = up.bus
          /\ worker' = [worker EXCEPT !.left = @ - n,
                                      !.last_bytes = up.last_bytes,
                                      !.last_emit = up.last_emit]
    /\ UNCHANGED <<queue, permits, waiting, granted, rxClosed, accepted,
                   startOrder>>
    /\ UNCHANGED <<touch, inner, ops, chan, startup, dial, vault, vaultCall, fileOps, catalog, kh, glob, calls, sessions, transports, subscribed, rx, disc>>

\* An open, read, write or create_dir_all of the copy fails.
CopyFail(kind) ==
    /\ worker.pc \in {"copy", "local"}
    /\ kind \in {"Io", "Ssh"}
    /\ worker.pc = "local" => kind = "Io"
    /\ worker' = Fail(worker, kind, "copy failed")
    /\ UNCHANGED <<jobs, queue, permits, waiting, granted, rxClosed, accepted,
                   startOrder>>
    /\ UNCHANGED <<touch, inner, ops, chan, startup, dial, vault, vaultCall, fileOps, catalog, kh, glob, calls, sessions, transports, bus, subscribed, rx, disc>>

\* transfer.rs:205-206: files_completed is advanced and an event sent; the
\* loop goes on with the next file or ends.
FileDone(log, w, j, progress) ==
    LET done == [progress EXCEPT !.files_completed = @ + 1]
        up == UpdateProgress(log, j, done, w.last_bytes, TRUE, 0)
    IN [progress |-> done,
        bus |-> up.bus,
        worker |-> [w EXCEPT !.pc = IF w.idx = Len(jobs[j].files)
                                    THEN "finish" ELSE "file",
                             !.idx = @ + 1,
                             !.left = 0,
                             !.last_bytes = up.last_bytes,
                             !.last_emit = up.last_emit]]

\* What the destination can hold after the last write, compared with the
\* bytes read from the source: a local destination is created anew
\* (File::create) and holds them; a remote one opened without TRUNCATE keeps
\* the tail of what it held, and the server may store something else.
CanMatch(job, file) ==
    job.dest = "Local" \/ job.replace \/ file.old <= file.actual

CanDiffer(job, file) == job.dest = "Remote"

\* A copy that skips the comparison of the digests.
VerifiedNever(job, file) == FALSE

\* transfer.rs:258 / 316: if job.options.verify_checksum, for a file.
Verified(job, file) == ~file.is_dir /\ job.verify_checksum

\* The end of a remote copy: a directory is done; a file is verified when
\* verify_checksum is set, and then done. same: the destination holds the
\* bytes that were read, which is what equal SHA-256 digests mean.
CopyEnd(same) ==
    /\ worker.pc = "copy"
    /\ worker.left = 0
    /\ LET j == worker.job
           f == CurrentFile
           checked == Verified(jobs[j], f)
           fd == FileDone(bus, worker, j, jobs[j].progress)
           mark == IF f.is_dir THEN "dir"
                   ELSE IF same THEN "equal" ELSE "differs"
       IN /\ IF f.is_dir
             THEN same
             ELSE IF same THEN CanMatch(jobs[j], f) ELSE CanDiffer(jobs[j], f)
          /\ IF checked /\ ~same
             THEN /\ worker' = Fail(worker, "Invalid", "checksum mismatch")
                  /\ jobs' = [jobs EXCEPT
                                 ![j].run.written = Append(@, mark)]
                  /\ bus' = bus
             ELSE /\ worker' = fd.worker
                  /\ jobs' = [jobs EXCEPT
                                 ![j].progress = fd.progress,
                                 ![j].run.written = Append(@, mark),
                                 ![j].run.bumped = @ \cup {worker.idx}]
                  /\ bus' = fd.bus
    /\ UNCHANGED <<queue, permits, waiting, granted, rxClosed, accepted,
                   startOrder>>
    /\ UNCHANGED <<touch, inner, ops, chan, startup, dial, vault, vaultCall, fileOps, catalog, kh, glob, calls, sessions, transports, subscribed, rx, disc>>

\* copy_local_to_local: a directory is created; a file is copied by the host
\* (tokio::fs::copy replaces the destination by the source's bytes, whatever
\* verify_checksum says) and a forced event sent; then the file is done.
LocalCopy ==
    /\ worker.pc = "local"
    /\ LET j == worker.job
           f == CurrentFile
           progress == IF f.is_dir
                       THEN jobs[j].progress
                       ELSE [jobs[j].progress EXCEPT
                                !.bytes_transferred = @ + f.actual]
           up == UpdateProgress(bus, j, progress, worker.last_bytes,
                                ~f.is_dir, worker.last_emit)
           fd == FileDone(up.bus,
                          [worker EXCEPT !.last_bytes = up.last_bytes,
                                         !.last_emit = up.last_emit],
                          j, progress)
       IN /\ worker' = fd.worker
          /\ jobs' = [jobs EXCEPT
                         ![j].progress = fd.progress,
                         ![j].run.moved =
                             IF f.is_dir \/ f.actual = 0
                             THEN @ ELSE @ \cup {worker.idx},
                         ![j].run.written =
                             Append(@, IF f.is_dir THEN "dir" ELSE "equal"),
                         ![j].run.bumped = @ \cup {worker.idx}]
          /\ bus' = fd.bus
    /\ UNCHANGED <<queue, permits, waiting, granted, rxClosed, accepted,
                   startOrder>>
    /\ UNCHANGED <<touch, inner, ops, chan, startup, dial, vault, vaultCall, fileOps, catalog, kh, glob, calls, sessions, transports, subscribed, rx, disc>>

\* transfer.rs:103-108: the job's final state from process_job's result.
FinalState(result) ==
    IF result.ok THEN "Completed" ELSE "Failed"

\* TransferState::Failed { error: err.to_string() }
FailedError(result) ==
    IF result.ok THEN <<>> ELSE Display(result)

\* transfer.rs:103-115: the final state is set and the last event sent.
JobFinish ==
    /\ worker.pc = "finish"
    /\ LET j == worker.job
       IN /\ bus' = Send(bus, TransferProgress(j, jobs[j].progress))
          /\ jobs' = [jobs EXCEPT
                         ![j].state = FinalState(worker.result),
                         ![j].error = FailedError(worker.result),
                         ![j].ret = worker.result,
                         ![j].run.failed_at =
                             IF worker.result.ok THEN 0 ELSE worker.idx,
                         ![j].run.final = Len(bus')]
    /\ worker' = WorkerIdle
    /\ UNCHANGED <<queue, permits, waiting, granted, rxClosed, accepted,
                   startOrder>>
    /\ UNCHANGED <<touch, inner, ops, chan, startup, dial, vault, vaultCall, fileOps, catalog, kh, glob, calls, sessions, transports, subscribed, rx, disc>>

\* The worker task ends (a panic inside it, the runtime shutting down): the
\* receiver it owns is dropped, the channel closes, the jobs still in it are
\* dropped and every suspended caller is woken with an error.
WorkerAbort ==
    /\ worker.pc # "stopped"
    /\ rxClosed' = TRUE
    /\ worker' = [worker EXCEPT !.pc = "stopped"]
    /\ queue' = <<>>
    /\ waiting' = <<>>
    /\ jobs' = [j \in JobIds |->
                   IF j \in Range(waiting)
                   THEN [jobs[j] EXCEPT !.call = "err", !.ret = ChannelClosed]
                   ELSE jobs[j]]
    /\ UNCHANGED <<permits, granted, accepted, startOrder>>
    /\ UNCHANGED <<touch, inner, ops, chan, startup, dial, vault, vaultCall, fileOps, catalog, kh, glob, calls, sessions, transports, bus, subscribed, rx, disc>>

InitTransfers ==
    /\ jobs = <<>>
    /\ queue = <<>>
    /\ permits = Capacity
    /\ waiting = <<>>
    /\ granted = {}
    /\ rxClosed = FALSE
    /\ worker = WorkerIdle
    /\ accepted = <<>>
    /\ startOrder = <<>>

(***************************************************************************)
(* known_hosts.rs: host patterns.                                          *)
(***************************************************************************)
HostChars == {"a", "b"}
PatternChars == HostChars \cup {"*", "?"}

\* pattern.strip_prefix('!')
Negated(pattern) == pattern # <<>> /\ Head(pattern) = "!"
Stripped(pattern) == IF Negated(pattern) THEN Tail(pattern) ELSE pattern

\* glob_match, the final loop: the stars the pattern ends with are skipped.
RECURSIVE SkipStars(_, _)
SkipStars(pattern, p) ==
    IF p < Len(pattern) /\ pattern[p + 1] = "*"
    THEN SkipStars(pattern, p + 1)
    ELSE p

\* glob_match, the main loop over the text; star_idx is -1 for None.
RECURSIVE GlobLoop(_, _, _, _, _, _)
GlobLoop(pattern, text, p, t, star_idx, match_idx) ==
    IF t < Len(text)
    THEN IF p < Len(pattern)
            /\ (pattern[p + 1] = "?" \/ pattern[p + 1] = text[t + 1])
         THEN GlobLoop(pattern, text, p + 1, t + 1, star_idx, match_idx)
         ELSE IF p < Len(pattern) /\ pattern[p + 1] = "*"
              THEN GlobLoop(pattern, text, p + 1, t, p, t)
              ELSE IF star_idx # -1
                   THEN GlobLoop(pattern, text, star_idx + 1, match_idx + 1,
                                 star_idx, match_idx + 1)
                   ELSE FALSE
    ELSE SkipStars(pattern, p) = Len(pattern)

GlobMatch(pattern, text) == GlobLoop(pattern, text, 0, 0, -1, 0)

\* A faulty match that answers at the first pattern that matches.
RECURSIVE MatchFirstPattern(_, _)
MatchFirstPattern(patterns, host) ==
    IF patterns = <<>>
    THEN FALSE
    ELSE IF GlobMatch(Stripped(Head(patterns)), host)
         THEN ~Negated(Head(patterns))
         ELSE MatchFirstPattern(Tail(patterns), host)

\* match_plain_patterns, the loop from pattern i on with the flag matched.
RECURSIVE MatchFrom(_, _, _, _)
MatchFrom(patterns, host, i, matched) ==
    IF i > Len(patterns)
    THEN matched
    ELSE IF GlobMatch(Stripped(patterns[i]), host)
         THEN IF Negated(patterns[i])
              THEN FALSE
              ELSE MatchFrom(patterns, host, i + 1, TRUE)
         ELSE MatchFrom(patterns, host, i + 1, matched)

MatchPlainPatterns(patterns, host) == MatchFrom(patterns, host, 1, FALSE)

\* The glob semantics of OpenSSH patterns: * stands for any sequence of
\* characters, ? for one character, another character for itself.
RECURSIVE Globs(_, _)
Globs(pattern, text) ==
    IF pattern = <<>>
    THEN text = <<>>
    ELSE IF Head(pattern) = "*"
         THEN \/ Globs(Tail(pattern), text)
              \/ text # <<>> /\ Globs(pattern, Tail(text))
         ELSE /\ text # <<>>
              /\ Head(pattern) = "?" \/ Head(pattern) = Head(text)
              /\ Globs(Tail(pattern), Tail(text))

\* The patterns and hosts of the calls.
PlainPatterns == SeqsUpTo(PatternChars, MaxPatternLen)
Patterns == PlainPatterns \cup {<<"!">> \o q : q \in PlainPatterns}
PatternLists ==
    {<<>>} \cup {<<q>> : q \in Patterns}
           \cup {<<q, r>> : q \in Patterns, r \in Patterns}
Hosts == SeqsUpTo(HostChars, MaxHostLen)

NoGlobCall == [pc |-> "none", patterns |-> <<>>, host |-> <<>>,
               result |-> FALSE]

\* host_matches, the arm of plain patterns.
PlainMatch ==
    /\ glob.pc = "call"
    /\ glob' = [glob EXCEPT
                   !.pc = "done",
                   !.result = MatchPlainPatterns(glob.patterns, glob.host)]
    /\ UNCHANGED <<touch, inner, ops, chan, startup, dial, vault, vaultCall, fileOps, catalog, kh, calls, sessions, transports,
                   bus, subscribed, rx, disc, xferVars>>

(***************************************************************************)
(* known_hosts.rs: KnownHosts; client.rs: ClientHandler::check_server_key. *)
(***************************************************************************)
\* Ports are written as their decimal text.
DefaultPort == "22"

\* host_to_pattern
HostToPattern(host, port) ==
    IF port = DefaultPort THEN host ELSE <<"[">> \o host \o <<"]", ":", port>>

\* HostPatterns::Patterns(list) and HostPatterns::HashedName of a target.
PlainHosts(list) == [hashed |-> FALSE, list |-> list, target |-> <<>>]
HashedHost(target) == [hashed |-> TRUE, list |-> <<>>, target |-> target]

\* host_matches; two HMAC-SHA1 values are equal when the hashed names are.
HostMatches(patterns, host_for_match, host, port) ==
    IF patterns.hashed
    THEN patterns.target = HostToPattern(host, port)
    ELSE MatchPlainPatterns(patterns.list, host_for_match)

KnownEntry(marker, patterns, key) ==
    [marker |-> marker, host_patterns |-> patterns, public_key |-> key]

\* KnownHosts::check, the loop from entry i on.
RECURSIVE CheckFrom(_, _, _, _, _)
CheckFrom(entries, i, host, port, key) ==
    IF i > Len(entries)
    THEN "NotFound"
    ELSE LET entry == entries[i]
             matches == HostMatches(entry.host_patterns,
                                    HostToPattern(host, port), host, port)
         IN IF entry.marker = "Revoked" /\ matches
            THEN "Revoked"
            ELSE IF matches
                 THEN IF entry.public_key = key THEN "Match" ELSE "Mismatch"
                 ELSE CheckFrom(entries, i + 1, host, port, key)

Check(entries, host, port, key) == CheckFrom(entries, 1, host, port, key)

\* KnownHosts::add: the line "pattern key" is appended to the file, which
\* is then read again.
Added(file, host, port, key) ==
    Append(file, KnownEntry("None", PlainHosts(<<HostToPattern(host, port)>>),
                            key))

HostKeys == {"K1", "K2"}
Policies == {"Strict", "AcceptNew", "InsecureAcceptAny"}
Targets == [host : {<<"a">>}, port : {DefaultPort, "2222"}]
KhCalls == {1, 2}

\* The entries a known-hosts file may hold before the first connect.
KnownEntries ==
    {KnownEntry(marker, patterns, key) :
        marker \in {"None", "Revoked"},
        patterns \in {PlainHosts(<< <<"a">> >>), PlainHosts(<< <<"*">> >>),
                      PlainHosts(<< <<"[", "a", "]", ":", "2222">> >>),
                      HashedHost(<<"a">>)},
        key \in HostKeys}

NoKhCall == [pc |-> "idle", host |-> <<>>, port |-> DefaultPort,
             policy |-> "Strict", entries |-> <<>>, key |-> "none",
             result |-> "none", accepted |-> FALSE, appended |-> FALSE,
             trusted |-> "none"]

\* No call yet; tofu[target] is the key that was first accepted for the
\* target by an AcceptNew connect that found no entry for it.
KnownHostsOf(file) ==
    [file |-> file, calls |-> [c \in KhCalls |-> NoKhCall],
     tofu |-> [target \in Targets |-> "none"]]

\* A faulty handler for which AcceptNew takes any answer but Revoked.
AcceptedLenient(policy, result) ==
    \/ policy = "InsecureAcceptAny"
    \/ policy = "AcceptNew" /\ result # "Revoked"
    \/ result = "Match"

\* check_server_key: whether the key is accepted, from the policy and the
\* result of the check ("none" when the policy asks for no check).
Accepted(policy, result) ==
    \/ policy = "InsecureAcceptAny"
    \/ result = "Match"
    \/ policy = "AcceptNew" /\ result = "NotFound"

\* SshClient::connect, up to the handler: the file is loaded into the
\* KnownHosts of this call.
KhLoad(c, target, policy) ==
    /\ kh.calls[c].pc = "idle"
    /\ kh' = [kh EXCEPT !.calls[c] =
                  [NoKhCall EXCEPT !.pc = "loaded", !.host = target.host,
                                   !.port = target.port, !.policy = policy,
                                   !.entries = kh.file]]
    /\ UNCHANGED <<touch, inner, ops, chan, startup, dial, vault, vaultCall, fileOps, catalog, glob, calls, sessions,
                   transports, bus, subscribed, rx, disc, xferVars>>

\* check_server_key with the key the server presents.
CheckServerKey(c, key) ==
    /\ kh.calls[c].pc = "loaded"
    /\ LET call == kh.calls[c]
           target == [host |-> call.host, port |-> call.port]
           result == IF call.policy = "InsecureAcceptAny"
                     THEN "none"
                     ELSE Check(call.entries, call.host, call.port, key)
           accepts == Accepted(call.policy, result)
           adds == call.policy = "AcceptNew" /\ result = "NotFound"
           file == IF adds THEN Added(kh.file, call.host, call.port, key)
                           ELSE kh.file
       IN kh' = [kh EXCEPT
                    !.file = file,
                    !.tofu[target] = IF adds /\ @ = "none" THEN key ELSE @,
                    !.calls[c] =
                        [call EXCEPT !.pc = "done", !.key = key,
                                     !.result = result,
                                     !.accepted = accepts,
                                     !.appended = adds,
                                     !.entries = IF adds THEN file ELSE @,
                                     !.trusted = kh.tofu[target]]]
    /\ UNCHANGED <<touch, inner, ops, chan, startup, dial, vault, vaultCall, fileOps, catalog, glob, calls, sessions,
                   transports, bus, subscribed, rx, disc, xferVars>>

(***************************************************************************)
(* connection.rs: ConnectionStore.                                         *)
(***************************************************************************)

\* Connection, reduced to the columns whose stored form differs from the
\* field (port, group_id, the timestamps, is_favorite) and the import key.
CatalogConn(id, host, port, username, favorite) ==
    [id |-> id, name |-> host, host |-> host, port |-> port,
     username |-> username,
     auth_method |-> [type |-> "Agent", ref |-> NoRef], group_id |-> NoUuid,
     created_at |-> 0, updated_at |-> 0, last_connected_at |-> NoTime,
     is_favorite |-> favorite]

\* Uuid::to_string / Uuid::parse_str and to_rfc3339 / parse_from_rfc3339.
UuidText(id) == <<"uuid", id>>
ParseUuid(text) == text[2]
Rfc3339(t) == <<"rfc3339", t>>
ParseRfc3339(text) == text[2]
Null == <<"null">>

\* The parameters of INSERT and UPDATE: the row of a connection.
RowOf(conn) ==
    [id |-> UuidText(conn.id), name |-> conn.name, host |-> conn.host,
     port |-> conn.port, username |-> conn.username,
     auth_method |-> conn.auth_method,
     group_id |-> IF conn.group_id = NoUuid THEN Null
                  ELSE UuidText(conn.group_id),
     created_at |-> Rfc3339(conn.created_at),
     updated_at |-> Rfc3339(conn.updated_at),
     last_connected_at |-> IF conn.last_connected_at = NoTime THEN Null
                           ELSE Rfc3339(conn.last_connected_at),
     is_favorite |-> IF conn.is_favorite THEN 1 ELSE 0]

\* row_to_connection; the port column is read as i64 and cast to u16.
RowToConnection(row) ==
    [id |-> ParseUuid(row.id), name |-> row.name, host |-> row.host,
     port |-> row.port % 65536, username |-> row.username,
     auth_method |-> row.auth_method,
     group_id |-> IF row.group_id = Null THEN NoUuid
                  ELSE ParseUuid(row.group_id),
     created_at |-> ParseRfc3339(row.created_at),
     updated_at |-> ParseRfc3339(row.updated_at),
     last_connected_at |-> IF row.last_connected_at = Null THEN NoTime
                           ELSE ParseRfc3339(row.last_connected_at),
     is_favorite |-> row.is_favorite = 1]

DbOk == [ok |-> TRUE, kind |-> "Ok", msg |-> "none"]

\* A faulty table without the primary key.
InsertAnyRow(rows, row) == [ok |-> TRUE, rows |-> rows \cup {row}]

\* INSERT INTO connections: id is the PRIMARY KEY of the table.
InsertRow(rows, row) ==
    IF \E r \in rows : r.id = row.id
    THEN [ok |-> FALSE, rows |-> rows]
    ELSE [ok |-> TRUE, rows |-> rows \cup {row}]

\* UPDATE connections SET ... WHERE id: every column but id and created_at.
Updated(rows, row) ==
    {IF r.id = row.id THEN [row EXCEPT !.created_at = r.created_at] ELSE r :
        r \in rows}

\* get_connection
GetConnection(rows, id) ==
    IF \E r \in rows : r.id = UuidText(id)
    THEN [ok |-> TRUE,
          value |-> RowToConnection(CHOOSE r \in rows : r.id = UuidText(id))]
    ELSE CoreError("NotFound", "not found")

NoCatalogCall ==
    [op |-> "none", conn |-> CatalogConn(0, "none", 0, "none", FALSE),
     ret |-> DbOk, config |-> <<>>, returned |-> <<>>]

EmptyCatalog == [rows |-> {}, minted |-> 0, imports |-> 0,
                 call |-> NoCatalogCall]

\* create_connection; db_ok: the statement runs (the file can be written).
CreateConnection(conn, db_ok) ==
    /\ LET ins == InsertRow(catalog.rows, RowOf(conn))
       IN catalog' =
              [catalog EXCEPT
                  !.rows = IF db_ok THEN ins.rows ELSE @,
                  !.call = [NoCatalogCall EXCEPT
                               !.op = "create", !.conn = conn,
                               !.ret = IF db_ok /\ ins.ok THEN DbOk
                                       ELSE CoreError("Database", "insert")]]
    /\ UNCHANGED <<touch, inner, ops, chan, startup, dial, vault, vaultCall, fileOps, kh, glob, calls, sessions,
                   transports, bus, subscribed, rx, disc, xferVars>>

\* update_connection
UpdateConnection(conn, db_ok) ==
    /\ catalog' =
           [catalog EXCEPT
               !.rows = IF db_ok THEN Updated(@, RowOf(conn)) ELSE @,
               !.call = [NoCatalogCall EXCEPT
                            !.op = "update", !.conn = conn,
                            !.ret = IF db_ok THEN DbOk
                                    ELSE CoreError("Database", "update")]]
    /\ UNCHANGED <<touch, inner, ops, chan, startup, dial, vault, vaultCall, fileOps, kh, glob, calls, sessions,
                   transports, bus, subscribed, rx, disc, xferVars>>

\* delete_connection
DeleteConnection(id, db_ok) ==
    /\ catalog' =
           [catalog EXCEPT
               !.rows = IF db_ok THEN {r \in @ : r.id # UuidText(id)} ELSE @,
               !.call = [NoCatalogCall EXCEPT
                            !.op = "delete", !.conn.id = id,
                            !.ret = IF db_ok THEN DbOk
                                    ELSE CoreError("Database", "delete")]]
    /\ UNCHANGED <<touch, inner, ops, chan, startup, dial, vault, vaultCall, fileOps, kh, glob, calls, sessions,
                   transports, bus, subscribed, rx, disc, xferVars>>

\* A Host block of an ssh config: the names after Host and the values of
\* HostName, User and Port ("none" and NoPort when the keyword is absent).
\* The text after Port is written as the number it spells.
NoPort == -1
HostBlock(hosts, hostname, user, port) ==
    [hosts |-> hosts, hostname |-> hostname, user |-> user, port |-> port]

\* v.parse::<u16>().ok()
ParseU16(text) == IF text \in 0..65535 THEN text ELSE NoPort

\* whoami::username()
Whoami == "me"

\* The names of a Host line without * and ?; the model writes a name with
\* a wildcard as "*".
RECURSIVE FirstPlain(_)
FirstPlain(hosts) ==
    IF hosts = <<>> THEN "none"
    ELSE IF Head(hosts) # "*" THEN Head(hosts)
    ELSE FirstPlain(Tail(hosts))

HostName(block) ==
    IF FirstPlain(block.hosts) # "none" THEN FirstPlain(block.hosts)
    ELSE block.hosts[1]

\* Uuid::new_v4() of the n-th imported connection.
MintedId(n) == 10 + n

\* flush, up to the test of the key: the connection of a block.
BlockConn(block, id, now) ==
    [CatalogConn(id,
                 IF block.hostname # "none" THEN block.hostname
                 ELSE HostName(block),
                 IF block.port # NoPort /\ ParseU16(block.port) # NoPort
                 THEN ParseU16(block.port) ELSE 22,
                 IF block.user # "none" THEN block.user ELSE Whoami,
                 FALSE)
        EXCEPT !.name = HostName(block), !.created_at = now,
               !.updated_at = now]

ImportKey(conn) == <<conn.host, conn.port, conn.username>>

\* The loop over the lines with its flush calls: the entries pushed for the
\* blocks from i on, given the keys known and the entries pushed so far.
RECURSIVE Flushed(_, _, _, _, _, _)
Flushed(config, i, known, entries, minted, now) ==
    IF i > Len(config)
    THEN entries
    ELSE LET block == config[i]
             conn == BlockConn(block, MintedId(minted + Len(entries) + 1), now)
         IN IF block.hosts = <<>> \/ ImportKey(conn) \in known
            THEN Flushed(config, i + 1, known, entries, minted, now)
            ELSE Flushed(config, i + 1, known \cup {ImportKey(conn)},
                         Append(entries, conn), minted, now)

\* for entry in &entries { let _ = self.create_connection(entry); }
RECURSIVE CreatedAll(_, _, _)
CreatedAll(rows, entries, db_ok) ==
    IF entries = <<>> \/ ~db_ok
    THEN rows
    ELSE CreatedAll(InsertRow(rows, RowOf(Head(entries))).rows, Tail(entries),
                    db_ok)

\* import_from_ssh_config; db_ok: the INSERT statements run.
ImportFromSshConfig(config, db_ok) ==
    /\ catalog.imports < MaxImports
    /\ LET known == {ImportKey(RowToConnection(r)) : r \in catalog.rows}
           entries == Flushed(config, 1, known, <<>>, catalog.minted,
                              catalog.imports + 1)
       IN catalog' =
              [catalog EXCEPT
                  !.rows = CreatedAll(@, entries, db_ok),
                  !.minted = @ + Len(entries),
                  !.imports = @ + 1,
                  !.call = [NoCatalogCall EXCEPT
                               !.op = "import", !.config = config,
                               !.returned = entries]]
    /\ UNCHANGED <<touch, inner, ops, chan, startup, dial, vault, vaultCall, fileOps, kh, glob, calls, sessions,
                   transports, bus, subscribed, rx, disc, xferVars>>

(***************************************************************************)
(* Specifications.                                                         *)
(***************************************************************************)
\* The keyring serves s1; s2 is stored nowhere.
HoldsS1 == [id \in {"s1"} |-> "pw1"]

DefaultVault == [keyring |-> HoldsS1, fallback_enabled |-> FALSE,
                 file |-> EmptyMap, file_master |-> "m1"]

Vaults == [keyring : {EmptyMap, HoldsS1}, fallback_enabled : BOOLEAN,
           file : {EmptyMap, HoldsS1}, file_master : {"m1"}]

(***************************************************************************)
(* SshSession::exec and the reader task of open_shell (client.rs:139-159,  *)
(* 176-193): the loop over reader.wait(), which ends with None when the    *)
(* channel is closed.                                                      *)
(***************************************************************************)
Data(bytes) == [type |-> "Data", data |-> bytes, status |-> 0]
ExtendedData(bytes) == [type |-> "ExtendedData", data |-> bytes, status |-> 0]
ExitStatus(status) == [type |-> "ExitStatus", data |-> <<>>, status |-> status]
Eof == [type |-> "Eof", data |-> <<>>, status |-> 0]
WindowAdjusted == [type |-> "WindowAdjusted", data |-> <<>>, status |-> 0]

\* exit_status as i32: the statuses of the model lie below 2^31, where the
\* cast changes nothing.
AsI32(status) == status

\* The while loop of exec from message i on.
RECURSIVE ExecLoop(_, _, _, _)
ExecLoop(msgs, i, status, output) ==
    IF i > Len(msgs)
    THEN [status |-> status, output |-> output]
    ELSE LET msg == msgs[i]
         IN CASE msg.type \in {"Data", "ExtendedData"} ->
                     ExecLoop(msgs, i + 1, status, output \o msg.data)
              [] msg.type = "ExitStatus" ->
                     ExecLoop(msgs, i + 1, AsI32(msg.status), output)
              [] msg.type = "Eof" -> [status |-> status, output |-> output]
              [] OTHER -> ExecLoop(msgs, i + 1, status, output)

\* Option<u32>
NoStatus == -1

\* The while loop of the reader task from message i on: what it sent to
\* the output channel and the exit status it hands to wait_exit.
RECURSIVE ReaderLoop(_, _, _, _)
ReaderLoop(msgs, i, status, output) ==
    IF i > Len(msgs)
    THEN [status |-> status, output |-> output]
    ELSE LET msg == msgs[i]
         IN CASE msg.type \in {"Data", "ExtendedData"} ->
                     ReaderLoop(msgs, i + 1, status, output \o msg.data)
              [] msg.type = "ExitStatus" ->
                     ReaderLoop(msgs, i + 1, msg.status, output)
              [] msg.type = "Eof" -> [status |-> status, output |-> output]
              [] OTHER -> ReaderLoop(msgs, i + 1, status, output)

NoChannel == [op |-> "none", msgs |-> <<>>, status |-> 0, output |-> <<>>]

\* exec(command) on a channel on which the server sends msgs.
Exec(msgs) ==
    /\ LET ret == ExecLoop(msgs, 1, 0, <<>>)
       IN chan' = [op |-> "exec", msgs |-> msgs, status |-> ret.status,
                   output |-> ret.output]
    /\ UNCHANGED <<touch, inner, ops, startup, dial, vault, vaultCall, fileOps, catalog, kh,
                   glob, calls, sessions, transports, bus, subscribed, rx,
                   disc, xferVars>>

\* open_shell, its reader task to the end, and wait_exit.
ShellWaitExit(msgs) ==
    /\ LET ret == ReaderLoop(msgs, 1, NoStatus, <<>>)
       IN chan' = [op |-> "shell", msgs |-> msgs, status |-> ret.status,
                   output |-> ret.output]
    /\ UNCHANGED <<touch, inner, ops, startup, dial, vault, vaultCall, fileOps, catalog, kh,
                   glob, calls, sessions, transports, bus, subscribed, rx,
                   disc, xferVars>>

(***************************************************************************)
(* SessionManager::set_connection_password and connect_with_password       *)
(* (session.rs:83-117).                                                    *)
(***************************************************************************)
\* format!("conn:{}:password", conn.id)
ConnPasswordRef(id) == "conn:" \o ToString(id) \o ":password"

\* The fields of a connection that build_ssh_config_with_auth reads.
Route(conn) ==
    [auth_method |-> conn.auth_method, jump_hosts |-> conn.jump_hosts,
     proxy |-> conn.proxy]

\* A connection as get_connection returns it, with its jump hosts and proxy.
Routed(conn, jump_hosts, proxy) ==
    [id |-> conn.id, name |-> conn.name, host |-> conn.host,
     port |-> conn.port, username |-> conn.username,
     auth_method |-> conn.auth_method, group_id |-> conn.group_id,
     created_at |-> conn.created_at, updated_at |-> conn.updated_at,
     last_connected_at |-> conn.last_connected_at,
     is_favorite |-> conn.is_favorite,
     jump_hosts |-> jump_hosts, proxy |-> proxy]

\* A faulty choice that never keeps the secret_ref of the connection.
PasswordRefFresh(conn) == ConnPasswordRef(conn.id)

\* The secret_ref that set_connection_password stores under
\* (session.rs:104-107).
PasswordRefOf(conn) ==
    IF conn.auth_method.type = "Password"
    THEN conn.auth_method.ref
    ELSE ConnPasswordRef(conn.id)

\* set_connection_password: the result, the connection as the call leaves
\* it, the result of store_secret, the vault and the rows afterwards.
SetPassword(conn, password, master, up, db_ok, now) ==
    LET ref == PasswordRefOf(conn)
        s == StoreOutcome(ref, password, master, up)
        set == [conn EXCEPT !.auth_method = Password(ref),
                            !.updated_at = now]
    IN IF s.ret.tag # "Ok"
       THEN [ret |-> CoreError("Invalid", s.ret.value), conn |-> conn,
             stored |-> s.ret, vault |-> vault, rows |-> catalog.rows]
       ELSE IF ~db_ok
            THEN [ret |-> CoreError("Database", "update"), conn |-> set,
                  stored |-> s.ret, vault |-> s.vault,
                  rows |-> catalog.rows]
            ELSE [ret |-> OkResult, conn |-> set, stored |-> s.ret,
                  vault |-> s.vault,
                  rows |-> Updated(catalog.rows, RowOf(set))]

\* What a call that does not save leaves.
NotSaved(conn) ==
    [ret |-> OkResult, conn |-> conn, stored |-> Unset, vault |-> vault,
     rows |-> catalog.rows]

\* The vault and the catalog after set_connection_password.
Saves(set, ref, password, master, up) ==
    /\ vault' = set.vault
    /\ vaultCall' =
           IF set.stored.tag = "Unset" THEN vaultCall
           ELSE Called("store", ref, master, up, set.stored,
                       IF set.stored.tag = "Ok" THEN SomeSecret(password)
                       ELSE Unset)
    /\ catalog' =
           IF set.stored.tag # "Ok" THEN catalog
           ELSE [catalog EXCEPT
                    !.rows = set.rows,
                    !.call = [NoCatalogCall EXCEPT
                                 !.op = "update",
                                 !.conn = RowToConnection(RowOf(set.conn)),
                                 !.ret = IF set.ret.ok THEN DbOk
                                         ELSE set.ret]]

\* save_password_for_connection of the TUI: set_connection_password alone.
SetConnectionPassword(conn, password, master, up, db_ok, now) ==
    /\ Saves(SetPassword(conn, password, master, up, db_ok, now),
             PasswordRefOf(conn), password, master, up)
    /\ UNCHANGED <<touch, inner, ops, chan, startup, dial, fileOps, kh, glob, calls, sessions, transports, bus,
                   subscribed, rx, disc, xferVars>>

\* connect_with_password up to the first await of connect_with_config: the
\* password is saved if asked for, the config is built with the password
\* that was passed, Connecting is published.
ConnectWithPassword(id, conn, password, save, master, up, db_ok, now) ==
    /\ Fresh(id)
    /\ LET set == IF save
                  THEN SetPassword(conn, password, master, up, db_ok, now)
                  ELSE NotSaved(conn)
           auth == [type |-> "Password", secret |-> password]
           call == [Idle EXCEPT !.conn = Route(set.conn), !.master = master,
                                !.connection_id = conn.id,
                                !.password = password, !.save = save,
                                !.saved = set.ret]
       IN /\ Saves(set, PasswordRefOf(conn), password, master, up)
          /\ IF ~set.ret.ok
             THEN /\ calls' = [calls EXCEPT ![id] =
                                  [call EXCEPT !.pc = "done",
                                               !.result = set.ret]]
                  /\ bus' = bus
             ELSE LET cfg == BuildSshConfigWithAuth(Route(conn), auth,
                                                    master)'
                  IN IF cfg.ok
                     THEN /\ calls' = [calls EXCEPT ![id] =
                                          [call EXCEPT !.pc = "dialing",
                                                       !.cfg = cfg]]
                          /\ bus' = Send(bus,
                                         SessionStateChanged(id, "Connecting"))
                     ELSE /\ calls' = [calls EXCEPT ![id] =
                                          [call EXCEPT !.pc = "done",
                                                       !.cfg = cfg,
                                                       !.result = cfg]]
                          /\ bus' = bus
    /\ UNCHANGED <<touch, inner, ops, chan, startup, dial, fileOps, kh, glob, sessions, transports, disc,
                   subscribed, rx, xferVars>>

\* session.rs:162: store.get_connection(conn_id); the task ends if the
\* connection is not in the catalog.
TouchRead(id) ==
    /\ touch[id].pc = "spawned"
    /\ LET got == GetConnection(catalog.rows, touch[id].conn_id)
       IN touch' = [touch EXCEPT ![id] =
                       IF got.ok
                       THEN [@ EXCEPT !.pc = "read", !.conn = got.value]
                       ELSE [@ EXCEPT !.pc = "done"]]
    /\ UNCHANGED catalog
    /\ UNCHANGED <<inner, ops, chan, startup, dial, vault, vaultCall, fileOps, kh, glob, calls, sessions, transports, bus, subscribed, rx, disc, xferVars>>

\* session.rs:163-165: the connection that was read gets the two times and
\* is written back by update_connection, whose result is dropped.
TouchWrite(id, now, db_ok) ==
    /\ touch[id].pc = "read"
    /\ LET conn == [touch[id].conn EXCEPT !.last_connected_at = now,
                                          !.updated_at = now]
       IN catalog' =
              [catalog EXCEPT
                  !.rows = IF db_ok THEN Updated(@, RowOf(conn)) ELSE @,
                  !.call = [NoCatalogCall EXCEPT
                               !.op = "update", !.conn = conn,
                               !.ret = IF db_ok THEN DbOk
                                       ELSE CoreError("Database", "update")]]
    /\ touch' = [touch EXCEPT ![id].pc = "done"]
    /\ UNCHANGED <<inner, ops, chan, startup, dial, vault, vaultCall, fileOps, kh, glob, calls, sessions, transports, bus, subscribed, rx, disc, xferVars>>

\* A fallback file whose magic, length or tag is wrong: no master opens it.
Damaged == "damaged"

\* Vaults that were in use before: the keyring and the file hold s1 or
\* nothing, the file was written under m1 or is damaged.
UsedVaults == [keyring : {EmptyMap, HoldsS1}, fallback_enabled : BOOLEAN,
               file : {EmptyMap, HoldsS1}, file_master : {"m1", Damaged}]

\* A new vault with the fallback file enabled.
EmptyVault == [keyring |-> EmptyMap, fallback_enabled |-> TRUE,
               file |-> EmptyMap, file_master |-> "m1"]

\* The connections the session specification connects to: one whose password
\* is stored, one whose password is missing, one behind a jump host.
Catalog ==
    {[auth_method |-> Password("s1"), jump_hosts |-> <<>>, proxy |-> NoProxy],
     [auth_method |-> Password("s2"), jump_hosts |-> <<>>, proxy |-> NoProxy],
     [auth_method |-> Password("s1"),
      jump_hosts |-> <<[auth_method |-> [type |-> "Agent", ref |-> NoRef]]>>,
      proxy |-> NoProxy]}

\* The connection of the session that the transfers use.
SessionConn ==
    [auth_method |-> Password("s1"), jump_hosts |-> <<>>, proxy |-> NoProxy]

(***************************************************************************)
(* SshSession: the operations on inner: Arc<Mutex<SessionInner>>           *)
(* (client.rs:114-212).                                                    *)
(***************************************************************************)
\* Who calls into an SshSession: the connect call (send_startup_commands,
\* session.rs:139), the transfer worker (open_sftp, transfer.rs:155) and the
\* terminal interface (open_shell, open_sftp, exec under a timeout, lib.rs).
LockCallers == {"connect", "worker", "ui"}

OpsOf(c) ==
    CASE c = "connect" -> {"send_startup_commands"}
      [] c = "worker" -> {"open_sftp"}
      [] OTHER -> {"open_shell", "open_sftp", "exec", "is_closed"}

NoCaller == "none"

\* tokio::sync::Mutex: free, or held by one caller while the others wait in
\* the order they asked.
Unlocked == [holder |-> NoCaller, waiters |-> <<>>]

\* pc: idle; waiting, suspended in lock().await; held, past the lock and in
\* channel_open_session and the requests after it (or, for
\* send_startup_commands, in the clone of the commands); reading, in the
\* loop of exec. left: the startup commands still to run, this one included.
NoOp == [pc |-> "idle", op |-> "none", session |-> 0, left |-> 0]

\* A faulty lock that lets every caller in.
LockBarging(l, c) == [l EXCEPT !.holder = c]

\* self.inner.lock().await
Lock(l, c) ==
    IF l.holder = NoCaller
    THEN [l EXCEPT !.holder = c]
    ELSE [l EXCEPT !.waiters = Append(@, c)]

\* The guard is dropped: the lock goes to the oldest waiter, if any.
Unlock(l) ==
    IF l.waiters = <<>>
    THEN Unlocked
    ELSE [holder |-> Head(l.waiters), waiters |-> Tail(l.waiters)]

\* The caller's position after lock().await on lock l.
AfterLock(l, c) == IF l.holder = c THEN "held" ELSE "waiting"

\* Caller c drops its guard on session s and goes on as next; the caller
\* that gets the lock resumes.
Release(s, c, next) ==
    LET l == Unlock(inner[s])
    IN /\ inner' = [inner EXCEPT ![s] = l]
       /\ ops' = [d \in LockCallers |->
                     IF d = c THEN next
                     ELSE IF d = l.holder THEN [ops[d] EXCEPT !.pc = "held"]
                     ELSE ops[d]]

\* Caller c drops its guard and calls exec again for its next command.
ReleaseAndExec(s, c, left) ==
    LET l == Lock(Unlock(inner[s]), c)
    IN /\ inner' = [inner EXCEPT ![s] = l]
       /\ ops' = [d \in LockCallers |->
                     IF d = c
                     THEN [pc |-> AfterLock(l, c), op |-> "exec",
                           session |-> s, left |-> left]
                     ELSE IF d = l.holder THEN [ops[d] EXCEPT !.pc = "held"]
                     ELSE ops[d]]

\* open_shell, open_sftp, exec, is_closed or send_startup_commands is
\* called: each begins with self.inner.lock().await.
SessionCall(c, op, s) ==
    /\ ops[c].pc = "idle"
    /\ op \in OpsOf(c)
    /\ LET l == Lock(inner[s], c)
       IN /\ inner' = [inner EXCEPT ![s] = l]
          /\ ops' = [ops EXCEPT ![c] = [pc |-> AfterLock(l, c), op |-> op,
                                        session |-> s, left |-> 0]]
    /\ UNCHANGED <<touch, chan, startup, dial, vault, vaultCall, fileOps, catalog, kh, glob, calls, sessions, transports, bus, subscribed, rx, disc, xferVars>>

\* client.rs:196-199: send_startup_commands clones the n commands of the
\* config under the lock, drops the guard and calls exec for the first.
CloneCommands(c, n) ==
    /\ ops[c].pc = "held"
    /\ ops[c].op = "send_startup_commands"
    /\ IF n = 0
       THEN Release(ops[c].session, c, NoOp)
       ELSE ReleaseAndExec(ops[c].session, c, n)
    /\ UNCHANGED <<touch, chan, startup, dial, vault, vaultCall, fileOps, catalog, kh, glob, calls, sessions, transports, bus, subscribed, rx, disc, xferVars>>

\* client.rs:115-165, 169-173, 207-211: open_shell, open_sftp and is_closed
\* return, with a result or an error, and drop the guard.
SessionReturn(c) ==
    /\ ops[c].pc = "held"
    /\ ops[c].op \in {"open_shell", "open_sftp", "is_closed"}
    /\ Release(ops[c].session, c, NoOp)
    /\ UNCHANGED <<touch, chan, startup, dial, vault, vaultCall, fileOps, catalog, kh, glob, calls, sessions, transports, bus, subscribed, rx, disc, xferVars>>

\* client.rs:178-179: exec opens its channel and requests the command; an
\* error of either returns from exec (and from send_startup_commands).
ExecOpen(c, ok) ==
    /\ ops[c].pc = "held"
    /\ ops[c].op = "exec"
    /\ IF ok
       THEN /\ ops' = [ops EXCEPT ![c].pc = "reading"]
            /\ inner' = inner
       ELSE Release(ops[c].session, c, NoOp)
    /\ UNCHANGED <<touch, chan, startup, dial, vault, vaultCall, fileOps, catalog, kh, glob, calls, sessions, transports, bus, subscribed, rx, disc, xferVars>>

\* client.rs:183-191: the loop of exec ends at Eof or when the channel is
\* closed (reader.wait() returns None); exec returns and drops the guard.
\* send_startup_commands then calls exec for its next command.
ExecEnd(c, how) ==
    /\ ops[c].pc = "reading"
    /\ how \in {"Eof", "Closed"}
    /\ IF ops[c].left > 1
       THEN ReleaseAndExec(ops[c].session, c, ops[c].left - 1)
       ELSE Release(ops[c].session, c, NoOp)
    /\ UNCHANGED <<touch, chan, startup, dial, vault, vaultCall, fileOps, catalog, kh, glob, calls, sessions, transports, bus, subscribed, rx, disc, xferVars>>

\* lib.rs:3720-3722: the timeout around the exec future fires; the future is
\* dropped, and with it its place in the lock's queue or its guard and its
\* channel.
ExecTimeout(c) ==
    /\ c = "ui"
    /\ ops[c].op = "exec"
    /\ ops[c].pc \in {"waiting", "held", "reading"}
    /\ LET s == ops[c].session
       IN IF ops[c].pc = "waiting"
          THEN /\ inner' = [inner EXCEPT ![s].waiters =
                                SelectSeq(@, LAMBDA d : d # c)]
               /\ ops' = [ops EXCEPT ![c] = NoOp]
          ELSE Release(s, c, NoOp)
    /\ UNCHANGED <<touch, chan, startup, dial, vault, vaultCall, fileOps, catalog, kh, glob, calls, sessions, transports, bus, subscribed, rx, disc, xferVars>>

InitCore ==
    /\ touch = [id \in SessionIds |-> NoTouch]
    /\ inner = [s \in SessionIds |-> Unlocked]
    /\ ops = [c \in LockCallers |-> NoOp]
    /\ calls = [id \in SessionIds |-> Idle]
    /\ dial = [id \in SessionIds |-> NoDial]
    /\ startup = [id \in SessionIds |-> NoStartup]
    /\ chan = NoChannel
    /\ sessions = <<>>
    /\ transports = <<>>
    /\ bus = <<>>
    /\ vaultCall = NoVaultCall
    /\ fileOps = [p \in Callers |-> NoFileOp]
    /\ rx = NewReceiver
    /\ disc = [id \in SessionIds |-> 0]
    /\ InitTransfers

InitSessions ==
    /\ InitCore
    /\ glob = NoGlobCall
    /\ kh = KnownHostsOf(<<>>)
    /\ catalog = EmptyCatalog

Init ==
    /\ vault = DefaultVault
    /\ subscribed = TRUE
    /\ InitSessions

SessionStep ==
    \/ \E id \in SessionIds : \E o \in SshOutcome : SshConnect(id, o)
    \/ \E id \in SessionIds : SendStartupCommands(id)
    \/ \E id \in SessionIds : Register(id)
    \/ \E id \in SessionIds : Announce(id)
    \/ \E id \in SessionIds : Disconnect(id)

Next ==
    \/ \E id \in SessionIds : \E conn \in Catalog :
           ConnectBegin(id, conn, NoMaster)
    \/ SessionStep

Spec == Init /\ [][Next]_vars

\* Session lifecycle with the transport's keepalive timer running.
KeepaliveNext ==
    \/ Next
    \/ \E id \in SessionIds : KeepaliveUnanswered(id)
    \/ \E id \in SessionIds : KeepaliveAnswered(id)

KeepaliveSpec == Init /\ [][KeepaliveNext]_vars

\* One connect call, over every connection, master and vault content.
CfgInit ==
    /\ vault \in Vaults
    /\ subscribed = TRUE
    /\ InitSessions

CfgNext ==
    \/ \E conn \in Connection : \E master \in Masters :
           ConnectBegin(1, conn, master)
    \/ SessionStep

CfgSpec == CfgInit /\ [][CfgNext]_vars

\* The queue alone, filled beyond its capacity, with local copies that all
\* succeed; nobody listens on the bus.
QInit ==
    /\ vault = DefaultVault
    /\ subscribed = FALSE
    /\ InitSessions

QNext ==
    \/ \E j \in 1..MaxJobs : Enqueue(j, SimpleJob)
    \/ \E j \in 1..MaxJobs : \E sent \in BOOLEAN : EnqueueResume(j, sent)
    \/ WorkerRecv
    \/ LocalCopy
    \/ FileBegin
    \/ JobFinish
    \/ WorkerAbort

QSpec == QInit /\ [][QNext]_vars

\* A few transfers of every shape, enqueued once the connect call of the
\* session they name has returned; the session is disconnected while they run.
\* Every read fills the buffer and the 250 ms timer does not fire in a copy.
TransferNext ==
    \/ \E j \in 1..MaxTransferJobs : \E shape \in JobShapes :
           calls[1].pc = "done" /\ Enqueue(j, shape)
    \/ WorkerRecv
    \/ FileBegin
    \/ \E ok \in BOOLEAN : OpenSftp(ok)
    \/ CopyChunk(Min(BufferUnits, worker.left))
    \/ \E kind \in {"Io", "Ssh"} : CopyFail(kind)
    \/ \E same \in BOOLEAN : CopyEnd(same)
    \/ LocalCopy
    \/ JobFinish
    \/ ConnectBegin(1, SessionConn, NoMaster)
    \/ SshConnect(1, SshOk)
    \/ SendStartupCommands(1)
    \/ Register(1)
    \/ Announce(1)
    \/ Disconnect(1)

TransferSpec == Init /\ [][TransferNext]_vars

\* Secrets are stored, read and deleted under one master; every call finds
\* the keyring reachable or not.
VaultInit ==
    /\ vault = EmptyVault
    /\ subscribed = TRUE
    /\ InitSessions

VaultNext ==
    \/ \E id \in SecretRefs : \E secret \in SecretValues : \E up \in BOOLEAN :
           StoreSecret(id, secret, "m1", up)
    \/ \E id \in SecretRefs : \E up \in BOOLEAN : DeleteSecret(id, "m1", up)
    \/ \E id \in SecretRefs : \E up \in BOOLEAN : GetCall(id, "m1", up)

VaultSpec == VaultInit /\ [][VaultNext]_vars

\* The calls of a vault that was in use before, with the right master, with
\* another one and with none.
AnyMasters == {NoMaster, "m1", "m2"}

MasterInit ==
    /\ vault \in UsedVaults
    /\ subscribed = TRUE
    /\ InitSessions

MasterNext ==
    \/ \E id \in SecretRefs : \E master \in AnyMasters : \E up \in BOOLEAN :
           StoreSecret(id, "pw2", master, up)
    \/ \E id \in SecretRefs : \E master \in AnyMasters : \E up \in BOOLEAN :
           DeleteSecret(id, master, up)
    \/ \E id \in SecretRefs : \E master \in AnyMasters : \E up \in BOOLEAN :
           GetCall(id, master, up)

MasterSpec == MasterInit /\ [][MasterNext]_vars

\* Two callers store and delete their own ids in the fallback file under
\* the same master, the keyring being out of reach.
FileNext ==
    \/ \E p \in Callers : \E secret \in SecretValues :
           FallbackRead(p, "store", secret, "m1")
    \/ \E p \in Callers : FallbackRead(p, "delete", NoRef, "m1")
    \/ \E p \in Callers : FallbackWrite(p)

FileSpec == VaultInit /\ [][FileNext]_vars

\* One match_plain_patterns call for every pattern list and host.
GlobInit ==
    /\ vault = DefaultVault
    /\ subscribed = TRUE
    /\ InitCore
    /\ catalog = EmptyCatalog
    /\ kh = KnownHostsOf(<<>>)
    /\ glob \in [pc : {"call"}, patterns : PatternLists, host : Hosts,
                  result : {FALSE}]

GlobNext == PlainMatch

GlobSpec == GlobInit /\ [][GlobNext]_vars

\* One connect against every known-hosts file of up to MaxEntries entries.
CheckInit ==
    /\ vault = DefaultVault
    /\ subscribed = TRUE
    /\ InitCore
    /\ catalog = EmptyCatalog
    /\ glob = NoGlobCall
    /\ kh \in {KnownHostsOf(file) : file \in SeqsUpTo(KnownEntries, MaxEntries)}

CheckNext ==
    \/ \E target \in Targets : \E policy \in Policies :
           KhLoad(1, target, policy)
    \/ \E key \in HostKeys : CheckServerKey(1, key)

CheckSpec == CheckInit /\ [][CheckNext]_vars

\* Two connects, one after the other or at the same time, against a file of
\* at most one entry.
HostKeyInit ==
    /\ vault = DefaultVault
    /\ subscribed = TRUE
    /\ InitCore
    /\ catalog = EmptyCatalog
    /\ glob = NoGlobCall
    /\ kh \in {KnownHostsOf(file) : file \in SeqsUpTo(KnownEntries, 1)}

HostKeyNext ==
    \/ \E c \in KhCalls : \E target \in Targets : \E policy \in Policies :
           KhLoad(c, target, policy)
    \/ \E c \in KhCalls : \E key \in HostKeys : CheckServerKey(c, key)

HostKeySpec == HostKeyInit /\ [][HostKeyNext]_vars

\* The connections the application creates and edits, and two ssh configs.
UserConns ==
    {CatalogConn(id, "h1", port, "ops", FALSE) :
        id \in {1, 2}, port \in {22, 65535}}
    \cup {[CatalogConn(id, "h1", port, "ops", TRUE)
              EXCEPT !.group_id = 7, !.last_connected_at = 5,
                     !.created_at = 3, !.updated_at = 4] :
              id \in {1, 2}, port \in {22, 65535}}

SampleConfigs ==
    {<<HostBlock(<<"h1">>, "none", "ops", NoPort)>>,
     <<HostBlock(<<"*", "h2">>, "none", "ops", 2222),
       HostBlock(<<"alias">>, "h2", "ops", 2222)>>}

CatalogInit ==
    /\ vault = DefaultVault
    /\ subscribed = TRUE
    /\ InitSessions

CatalogNext ==
    \/ \E conn \in UserConns : \E db_ok \in BOOLEAN :
           CreateConnection(conn, db_ok)
    \/ \E conn \in UserConns : \E db_ok \in BOOLEAN :
           UpdateConnection(conn, db_ok)
    \/ \E id \in {1, 2} : \E db_ok \in BOOLEAN : DeleteConnection(id, db_ok)
    \/ \E config \in SampleConfigs : \E db_ok \in BOOLEAN :
           ImportFromSshConfig(config, db_ok)

CatalogSpec == CatalogInit /\ [][CatalogNext]_vars

\* Imports of every config of up to MaxBlocks blocks into a catalog that is
\* empty or holds one connection.
Blocks ==
    {HostBlock(hosts, hostname, "ops", port) :
        hosts \in {<<"h1">>}, hostname \in {"none", "h2"},
        port \in {NoPort, 0, 2222, 65536}}

Configs == SeqsUpTo(Blocks, MaxBlocks)

ImportInit ==
    /\ vault = DefaultVault
    /\ subscribed = TRUE
    /\ InitCore
    /\ glob = NoGlobCall
    /\ kh = KnownHostsOf(<<>>)
    /\ catalog \in {EmptyCatalog,
                     [EmptyCatalog EXCEPT
                         !.rows = {RowOf(CatalogConn(1, "h1", 22, "ops",
                                                     FALSE))}]}

ImportNext ==
    \E config \in Configs : \E db_ok \in BOOLEAN :
        ImportFromSshConfig(config, db_ok)

ImportSpec == ImportInit /\ [][ImportNext]_vars

(***************************************************************************)
(* The password prompt of the TUI: connect_with_password and                *)
(* save_password_for_connection on the connections of the catalog.         *)
(***************************************************************************)
\* Utc::now() of the calls.
Times == {8, 9}

\* The connections of the catalog: one that uses the agent, one whose
\* password is kept under a secret_ref of another name, one whose password
\* was saved by set_connection_password before.
StoredConns ==
    {CatalogConn(1, "h1", 22, "ops", FALSE),
     [CatalogConn(2, "h1", 2222, "ops", FALSE)
         EXCEPT !.auth_method = Password("s1")],
     [CatalogConn(3, "h2", 22, "ops", FALSE)
         EXCEPT !.auth_method = Password(ConnPasswordRef(3))]}

\* The vaults of the prompt: new, without the fallback file, and one whose
\* keyring holds the passwords saved before.
PromptVaults ==
    {EmptyVault, [EmptyVault EXCEPT !.fallback_enabled = FALSE],
     [EmptyVault EXCEPT
         !.keyring = Insert(HoldsS1, ConnPasswordRef(3), "pw2")]}

\* The prompt is modal: one connect_with_password call per run.
PromptCalls == {1}

\* store.get_connection(id) of the TUI before the call (lib.rs:1696-1699).
Loaded ==
    {Routed(RowToConnection(r), <<>>, NoProxy) : r \in catalog.rows}

PasswordInit ==
    /\ vault \in PromptVaults
    /\ subscribed = TRUE
    /\ InitCore
    /\ glob = NoGlobCall
    /\ kh = KnownHostsOf(<<>>)
    /\ catalog = [EmptyCatalog EXCEPT
                     !.rows = {RowOf(c) : c \in StoredConns}]

PasswordNext ==
    \/ \E id \in PromptCalls, conn \in Loaded, password \in SecretValues,
          save \in BOOLEAN, master \in Masters, up \in BOOLEAN,
          db_ok \in BOOLEAN, now \in Times :
           ConnectWithPassword(id, conn, password, save, master, up, db_ok,
                               now)
    \/ \E id \in SessionIds : \E outcome \in SshOutcome :
           SshConnect(id, outcome)
    \/ \E id \in SessionIds : SendStartupCommands(id)
    \/ \E id \in SessionIds : Register(id)
    \/ \E id \in SessionIds : Announce(id)

PasswordSpec == PasswordInit /\ [][PasswordNext]_vars

\* An edit of the terminal interface: the connection is read, marked as a
\* favourite and written back by update_connection.
Edited(conn, now) == [conn EXCEPT !.is_favorite = TRUE, !.updated_at = now]

\* The task of the connect call is running.
Touching(id) == touch[id].pc \in {"spawned", "read"}

\* A connect with a password, the task it spawns, and while that task runs
\* an edit of a connection or a password saved for it.
TouchNext ==
    \/ \E conn \in Loaded, save \in BOOLEAN, now \in Times :
           ConnectWithPassword(1, conn, "pw1", save, NoMaster, TRUE, TRUE,
                               now)
    \/ SshConnect(1, SshOk)
    \/ SendStartupCommands(1)
    \/ Register(1)
    \/ Announce(1)
    \/ TouchRead(1)
    \/ \E now \in Times : \E db_ok \in BOOLEAN : TouchWrite(1, now, db_ok)
    \/ \E conn \in Loaded, now \in Times :
           Touching(1) /\ UpdateConnection(Edited(conn, now), TRUE)
    \/ \E conn \in Loaded, now \in Times :
           /\ Touching(1)
           /\ SetConnectionPassword(conn, "pw2", NoMaster, TRUE, TRUE, now)

TouchSpec == PasswordInit /\ [][TouchNext]_vars

(***************************************************************************)
(* The connects of the session specification with SshClient::connect       *)
(* taken link by link.                                                     *)
(***************************************************************************)
ChainNext ==
    \/ \E id \in SessionIds : \E conn \in Catalog :
           ConnectBegin(id, conn, NoMaster)
    \/ \E id \in SessionIds : \E ok \in BOOLEAN : OpenTransport(id, ok)
    \/ \E id \in SessionIds : \E ok \in BOOLEAN : VerifyHostKey(id, ok)
    \/ \E id \in SessionIds : \E ok \in BOOLEAN : Authenticate(id, ok)
    \/ \E id \in SessionIds : SendStartupCommands(id)
    \/ \E id \in SessionIds : Register(id)
    \/ \E id \in SessionIds : Announce(id)

ChainSpec == Init /\ [][ChainNext]_vars

(***************************************************************************)
(* Connects whose config carries startup commands.                         *)
(***************************************************************************)
StartupNext ==
    \/ \E id \in SessionIds : \E conn \in Catalog :
           ConnectBegin(id, conn, NoMaster)
    \/ \E id \in SessionIds : \E o \in SshOutcome : SshConnect(id, o)
    \/ \E id \in SessionIds :
           \E commands \in SeqsUpTo(ExecEnds, MaxCommands) :
               RunStartupCommands(id, commands)
    \/ \E id \in SessionIds : Register(id)
    \/ \E id \in SessionIds : Announce(id)

StartupSpec == Init /\ [][StartupNext]_vars

(***************************************************************************)
(* exec and shell channels against every order of the server's messages.   *)
(***************************************************************************)
Messages ==
    {Data(<<"o">>), ExtendedData(<<"e">>), ExitStatus(3), Eof,
     WindowAdjusted}

\* The positions of the messages of a type.
Positions(msgs, type) == {i \in 1..Len(msgs) : msgs[i].type = type}

\* What a server may send before it closes the channel (RFC 4254): no data
\* after its Eof, one Eof and one exit status at most.
ServerOrders ==
    {msgs \in SeqsUpTo(Messages, MaxMessages) :
        /\ Cardinality(Positions(msgs, "Eof")) <= 1
        /\ Cardinality(Positions(msgs, "ExitStatus")) <= 1
        /\ \A i \in Positions(msgs, "Eof") :
               \A j \in Positions(msgs, "Data")
                        \cup Positions(msgs, "ExtendedData") : j < i}

ChannelInit ==
    /\ vault = DefaultVault
    /\ subscribed = TRUE
    /\ InitSessions

ChannelNext ==
    \/ \E msgs \in ServerOrders : Exec(msgs)
    \/ \E msgs \in ServerOrders : ShellWaitExit(msgs)

ChannelSpec == ChannelInit /\ [][ChannelNext]_vars

\* Two sessions send their state changes while run_app takes events off the
\* bus at its own pace.
BusNext ==
    \/ \E id \in SessionIds : ConnectBegin(id, SessionConn, NoMaster)
    \/ SessionStep
    \/ Recv

BusSpec == Init /\ [][BusNext]_vars

\* The steps of the worker task. The runtime keeps polling the spawned task
\* and every file operation it awaits returns, so the task is never left
\* waiting with a step to take.
WorkerRuns ==
    \/ WorkerRecv
    \/ FileBegin
    \/ \E ok \in BOOLEAN : OpenSftp(ok)
    \/ CopyChunk(Min(BufferUnits, worker.left))
    \/ \E kind \in {"Io", "Ssh"} : CopyFail(kind)
    \/ \E same \in BOOLEAN : CopyEnd(same)
    \/ LocalCopy
    \/ JobFinish

LiveSpec == TransferSpec /\ WF_vars(WorkerRuns)

\* One job of any shape, handed over before the connect call of the session
\* it names or after that call returned; the session is connected and
\* disconnected while the job runs. Every read fills the buffer and the
\* 250 ms timer does not fire in a copy.
JobNext ==
    \/ \E shape \in JobInputs :
           calls[1].pc \in {"idle", "done"} /\ Enqueue(1, shape)
    \/ WorkerRecv
    \/ FileBegin
    \/ \E ok \in BOOLEAN : OpenSftp(ok)
    \/ CopyChunk(Min(BufferUnits, worker.left))
    \/ \E kind \in {"Io", "Ssh"} : CopyFail(kind)
    \/ \E same \in BOOLEAN : CopyEnd(same)
    \/ LocalCopy
    \/ JobFinish
    \/ ConnectBegin(1, SessionConn, NoMaster)
    \/ SshConnect(1, SshOk)
    \/ SendStartupCommands(1)
    \/ Register(1)
    \/ Announce(1)
    \/ Disconnect(1)

JobSpec == Init /\ [][JobNext]_vars

(***************************************************************************)
(* Properties of the session lifecycle.                                    *)
(***************************************************************************)
\* Positions in the event stream of the state events of one session.
Pos(id, state) ==
    {i \in 1..Len(bus) : /\ bus[i].type = "SessionStateChanged"
                         /\ bus[i].id = id
                         /\ bus[i].state = state}

StateEvents(id) ==
    {i \in 1..Len(bus) : /\ bus[i].type = "SessionStateChanged"
                         /\ bus[i].id = id}

Before(I, J) == \A j \in J : \E i \in I : i < j

\* C1: for every session id the published state events are: exactly one
\* Connecting, before any Connected or Failed; at most one Connected and at
\* most one Failed, never both; every Disconnected after a Connected; and no
\* state event after a Disconnected or a Failed.
C1_Lifecycle ==
    \A id \in SessionIds :
        StateEvents(id) # {} =>
            /\ Cardinality(Pos(id, "Connecting")) = 1
            /\ Before(Pos(id, "Connecting"),
                      Pos(id, "Connected") \cup Pos(id, "Failed"))
            /\ Cardinality(Pos(id, "Connected")) <= 1
            /\ Cardinality(Pos(id, "Failed")) <= 1
            /\ Pos(id, "Connected") = {} \/ Pos(id, "Failed") = {}
            /\ Before(Pos(id, "Connected"), Pos(id, "Disconnected"))
            /\ \A t \in Pos(id, "Disconnected") \cup Pos(id, "Failed") :
                   \A k \in StateEvents(id) : k <= t

\* The SshClient::connect of this call has failed.
SshFailed(id) == calls[id].outcome # NoOutcome /\ ~calls[id].outcome.ok

\* C2: a connect whose SshClient::connect failed (at any link, for any
\* reason) has returned CoreError::Ssh, its id is not in the registry, and no
\* Connected and no Disconnected event exists for its id.
C2_SshFailure ==
    \A id \in SessionIds :
        SshFailed(id) =>
            /\ calls[id].pc = "done"
            /\ ~calls[id].result.ok
            /\ calls[id].result.kind = "Ssh"
            /\ id \notin DOMAIN sessions
            /\ Pos(id, "Connected") = {}
            /\ Pos(id, "Disconnected") = {}

\* A connect failed at the second link of its chain, for a refused host key.
C2_Witness ==
    \E id \in SessionIds :
        /\ SshFailed(id)
        /\ calls[id].outcome.link = 2
        /\ calls[id].outcome.reason = "hostkey"
        /\ calls[id].pc = "done"

\* C3: a connect that failed because authentication was refused has exactly
\* one Failed state event, published after its Connecting event.
C3_AuthFailedEvent ==
    \A id \in SessionIds :
        (SshFailed(id) /\ calls[id].outcome.reason = "auth") =>
            /\ Cardinality(Pos(id, "Failed")) = 1
            /\ Before(Pos(id, "Connecting"), Pos(id, "Failed"))

\* C4: once disconnect(id) ran on a registered session there is exactly one
\* Disconnected event for id, get_session(id) is None, list_sessions has no
\* handle of id, and this stays so through further disconnect(id) calls.
C4_Disconnect ==
    \A id \in SessionIds :
        disc[id] > 0 =>
            /\ Cardinality(Pos(id, "Disconnected")) = 1
            /\ GetSession(id) = NoHandle
            /\ \A h \in ListSessions : h.id # id

\* disconnect(id) ran twice on a session after it was registered.
C4_Witness ==
    \E id \in SessionIds : disc[id] = 2

C6_StateOrder ==
    \A id \in SessionIds :
        Before(Pos(id, "Connected"), Pos(id, "Disconnected"))

\* C7: a session whose connect has returned, whose transport saw 3
\* keepalives go unanswered, and which no caller disconnected, has a
\* Disconnected event and is no longer returned by get_session/list_sessions.
C7_KeepaliveDisconnects ==
    \A id \in SessionIds :
        (/\ Registered(id)
         /\ calls[id].pc = "done"
         /\ id \in DOMAIN transports
         /\ transports[id].unanswered >= KeepaliveMax) =>
            /\ Pos(id, "Disconnected") # {}
            /\ GetSession(id) = NoHandle
            /\ \A h \in ListSessions : h.id # id

\* The secret ids a connection refers to.
RECURSIVE JumpRefs(_)
JumpRefs(jumps) ==
    IF jumps = <<>>
    THEN {}
    ELSE {Head(jumps).auth_method.ref} \cup JumpRefs(Tail(jumps))

Refs(conn) ==
    ({conn.auth_method.ref} \cup JumpRefs(conn.jump_hosts)
        \cup {conn.proxy.password_ref}) \ {NoRef}

MissingRefs(conn) == {r \in Refs(conn) : ~InVault(r)}

\* The one error the code returns for a secret that is not there.
IsMissingCredential(result) ==
    /\ ~result.ok
    /\ result.kind = "Invalid"
    /\ result.msg = "missing password"

\* The vault can be read with the master the call was given.
VaultReadable(id) == ~vault.fallback_enabled \/ calls[id].master # NoMaster

\* C8: a connect whose connection refers to a secret id that the vault does
\* not hold (and can be read) never reaches SshClient::connect, and returns
\* the missing-credential error.
C8_MissingCredential ==
    \A id \in SessionIds :
        (/\ id \in Started
         /\ VaultReadable(id)
         /\ MissingRefs(calls[id].conn) # {}) =>
            /\ calls[id].outcome = NoOutcome
            /\ calls[id].pc = "done" => IsMissingCredential(calls[id].result)

(***************************************************************************)
(* Properties of the transfer queue.                                       *)
(***************************************************************************)
\* C9: an enqueue called with 32 jobs pending has returned an error and its
\* job is not queued; so has an enqueue called with the receiver closed.
C9_QueueFullError ==
    \A j \in JobIds :
        (jobs[j].full \/ jobs[j].closed) =>
            /\ jobs[j].call = "err"
            /\ j \notin Range(accepted)

\* C9 as amended: the channel never holds more than 32 jobs; an enqueue
\* called with 32 jobs pending is suspended, not failed, and ends in an
\* error only if the receiver closes meanwhile; an enqueue called with the
\* receiver closed returns CoreError::Invalid; a job whose enqueue is
\* suspended or has failed is not in the channel and never was.
C9_EnqueueWaits ==
    /\ Len(queue) <= Capacity
    /\ \A j \in JobIds :
           /\ jobs[j].full =>
                  \/ jobs[j].call \in {"waiting", "granted", "ok"}
                  \/ jobs[j].call = "err" /\ rxClosed
           /\ jobs[j].closed => jobs[j].call = "err"
           /\ jobs[j].call = "err" =>
                  /\ rxClosed
                  /\ jobs[j].ret = ChannelClosed
           /\ jobs[j].call \in {"waiting", "granted", "err"} =>
                  /\ j \notin Range(queue)
                  /\ j \notin Range(accepted)
                  /\ jobs[j].state = "Queued"

\* One enqueue found 32 jobs pending, was suspended, went through and its job
\* was started; another was still suspended when the receiver closed, and
\* failed.
C9_Witness ==
    \E a, b \in JobIds :
        /\ jobs[a].full /\ jobs[a].call = "ok" /\ a \in Range(startOrder)
        /\ jobs[b].full /\ jobs[b].call = "err"

IsPrefix(p, q) ==
    /\ Len(p) <= Len(q)
    /\ \A i \in 1..Len(p) : p[i] = q[i]

\* Position of a job in the order the worker started the jobs.
StartIndex(j) == CHOOSE i \in 1..Len(startOrder) : startOrder[i] = j

ProgressEvents == {i \in 1..Len(bus) : bus[i].type = "TransferProgress"}

InProgress == {j \in JobIds : jobs[j].state = "InProgress"}

\* C10: the worker starts the jobs in the order the channel accepted them,
\* each once; at most one job is InProgress; and in the event stream no event
\* of a job follows an event of a job started after it.
C10_Fifo ==
    /\ IsPrefix(startOrder, accepted)
    /\ Cardinality(InProgress) <= 1
    /\ \A a, b \in ProgressEvents :
           /\ bus[a].id \in Range(startOrder)
           /\ a < b => StartIndex(bus[a].id) <= StartIndex(bus[b].id)

\* Two jobs were queued together, both have run and have events on the bus.
C10_Witness ==
    /\ Len(startOrder) = MaxTransferJobs
    /\ jobs[1].state \in {"Completed", "Failed"}
    /\ jobs[2].state = "InProgress"
    /\ \E a, b \in ProgressEvents : bus[a].id = 1 /\ bus[b].id = 2

(***************************************************************************)
(* Properties of one job.                                                  *)
(***************************************************************************)
Terminal(j) == jobs[j].state \in {"Completed", "Failed"}

AllFiles(j) == 1..Len(jobs[j].files)

\* Positions in the event stream of the events of one job.
EventsOf(j) ==
    {i \in ProgressEvents : bus[i].id = j}

\* C11: the files of a job begin in the order of job.files, each once;
\* nothing is opened or moved for a file that did not begin; a job is
\* Completed exactly when files_completed was advanced for every file; a
\* Failed job failed in the last file that began, carries that failure's
\* error, and every file before it was completed.
C11_FilesInOrder ==
    \A j \in JobIds :
        LET r == jobs[j].run
        IN /\ \A i \in DOMAIN r.begun : r.begun[i] = i
           /\ Len(r.begun) <= Len(jobs[j].files)
           /\ r.sftp \cup r.moved \cup r.bumped \subseteq Range(r.begun)
           /\ Terminal(j) =>
                  /\ jobs[j].state = "Completed" <=> r.bumped = AllFiles(j)
                  /\ jobs[j].state = "Completed" => r.failed_at = 0
                  /\ jobs[j].state = "Failed" =>
                         /\ r.failed_at = Len(r.begun)
                         /\ r.failed_at \in AllFiles(j)
                         /\ r.bumped = 1..(r.failed_at - 1)
                         /\ ~jobs[j].ret.ok
                         /\ jobs[j].error = Display(jobs[j].ret)

\* A job of two files failed in its second file after completing the first.
C11_Witness ==
    \E j \in JobIds :
        /\ jobs[j].state = "Failed"
        /\ Len(jobs[j].files) = 2
        /\ jobs[j].run.failed_at = 2
        /\ jobs[j].run.bumped = {1}
        /\ jobs[j].run.moved # {}

\* The last of a non-empty set of positions.
Last(S) == CHOOSE x \in S : \A y \in S : y <= x

\* C13: over the successive events of a job bytes_transferred and
\* files_completed never decrease, and the last event of a Completed job has
\* bytes_transferred = bytes_total and files_completed = files_total.
C13_ProgressTotals ==
    \A j \in JobIds :
        /\ \A a, b \in EventsOf(j) :
               a < b =>
                   /\ bus[a].progress.bytes_transferred
                          <= bus[b].progress.bytes_transferred
                   /\ bus[a].progress.files_completed
                          <= bus[b].progress.files_completed
        /\ (jobs[j].state = "Completed" /\ EventsOf(j) # {}) =>
               LET last == bus[Last(EventsOf(j))].progress
               IN /\ last.bytes_transferred = last.bytes_total
                  /\ last.files_completed = last.files_total

\* C14: every event of a job has bytes_transferred <= bytes_total and
\* files_completed <= files_total (every event is sent after the totals
\* were computed).
C14_ProgressBounds ==
    \A i \in ProgressEvents :
        /\ bus[i].progress.bytes_transferred <= bus[i].progress.bytes_total
        /\ bus[i].progress.files_completed <= bus[i].progress.files_total

\* C15: in a Completed job with verify_checksum, the copy of every file that
\* is not a directory has ended with the destination holding the bytes read
\* from the source.
C15_VerifiedContent ==
    \A j \in JobIds :
        (jobs[j].state = "Completed" /\ jobs[j].verify_checksum) =>
            /\ Len(jobs[j].run.written) = Len(jobs[j].files)
            /\ \A i \in AllFiles(j) :
                   ~jobs[j].files[i].is_dir =>
                       jobs[j].run.written[i] = "equal"

\* A verified upload onto a longer file has Completed.
C15_Witness ==
    \E j \in JobIds :
        /\ jobs[j].state = "Completed"
        /\ jobs[j].verify_checksum
        /\ jobs[j].dest = "Remote"
        /\ \E i \in AllFiles(j) : jobs[j].files[i].old > 0
        /\ jobs[j].run.moved # {}

\* The copy of file i of job j found the destination different from what
\* was sent when it compared the digests.
Mismatched(j, i) ==
    /\ jobs[j].verify_checksum
    /\ i \in DOMAIN jobs[j].run.written
    /\ jobs[j].run.written[i] = "differs"

\* C16: a job in which the comparison of the digests failed for a file ends
\* Failed with the error string "checksum mismatch", and files_completed was
\* not advanced for that file.
C16_ChecksumMismatch ==
    \A j \in JobIds :
        \A i \in AllFiles(j) :
            Mismatched(j, i) =>
                /\ i \notin jobs[j].run.bumped
                /\ Terminal(j) =>
                       /\ jobs[j].state = "Failed"
                       /\ jobs[j].error = <<"checksum mismatch">>

\* The job has one remote endpoint, the case of the two SFTP arms.
OneRemote(j) ==
    (jobs[j].source = "Remote") # (jobs[j].dest = "Remote")

\* C17: a file of a job with one remote endpoint that began while the
\* session was not registered has no SFTP channel and no bytes moved, and
\* the job ends Failed in that file with "session not found".
C17_SessionNotFound ==
    \A j \in JobIds :
        OneRemote(j) =>
            \A i \in jobs[j].run.absent :
                /\ i \notin jobs[j].run.sftp
                /\ i \notin jobs[j].run.moved
                /\ Terminal(j) =>
                       /\ jobs[j].state = "Failed"
                       /\ jobs[j].run.failed_at = i
                       /\ jobs[j].ret = CoreError("Invalid", "session not found")
                       /\ jobs[j].error[2] = "session not found"

\* The session was disconnected between the first and the second file.
C17_Witness ==
    \E j \in JobIds :
        /\ OneRemote(j)
        /\ jobs[j].run.absent = {2}
        /\ jobs[j].run.bumped = {1}
        /\ jobs[j].run.moved # {}
        /\ disc[1] > 0
        /\ jobs[j].state = "Failed"

\* C18: a job from Remote to Remote ends Failed for the unsupported copy
\* and moves no bytes.
C18_RemoteToRemote ==
    \A j \in JobIds :
        (jobs[j].source = "Remote" /\ jobs[j].dest = "Remote") =>
            /\ jobs[j].run.moved = {}
            /\ jobs[j].progress.bytes_transferred = 0
            /\ Terminal(j) =>
                   /\ jobs[j].state = "Failed"
                   /\ jobs[j].ret = CoreError("Invalid",
                                    "remote to remote copy not supported")

\* The job has its final state and the event sent with it is its last one.
Finished(j) ==
    /\ j \in JobIds
    /\ Terminal(j)
    /\ jobs[j].run.final > 0
    /\ jobs[j].run.final = Last(EventsOf(j))

\* C12: every job the channel accepted is eventually Completed or Failed
\* with the event of its final state as its last event, whatever happened
\* to the jobs before it; and a job in a final state gets no further event.
C12_JobsEnd ==
    /\ \A j \in 1..MaxTransferJobs :
           (j \in Range(accepted)) ~> Finished(j)
    /\ [](\A j \in JobIds : Terminal(j) => Finished(j))

\* A job has Failed and the job accepted after it has reached its final
\* state too.
C12_Witness ==
    \E a, b \in JobIds :
        /\ a < b
        /\ jobs[a].state = "Failed"
        /\ Finished(a)
        /\ Finished(b)

(***************************************************************************)
(* Properties of the bus.                                                  *)
(***************************************************************************)
\* C19: what the subscriber has received is what was published since it
\* subscribed, in emission order with none missing, however far behind the
\* producers it is.
C19_AllReceived ==
    subscribed => rx.got = SubSeq(bus, 1, rx.next - 1)

(***************************************************************************)
(* Properties of the vault.                                                *)
(***************************************************************************)
\* C20: with the fallback enabled and one master, a get returns what the
\* last store of the id stored, or None after a delete of the id, whether
\* or not the keyring could be reached in any of the calls.
C20_RoundTrip ==
    (/\ vaultCall.op = "get"
     /\ vaultCall.last[vaultCall.id] # Unset)
        => vaultCall.ret = vaultCall.last[vaultCall.id]

\* The call reaches the fallback file: the keyring did not serve it, or it
\* is a delete, and the fallback is enabled.
ReachesFallback(op, id, up) ==
    /\ vault.fallback_enabled
    /\ \/ op = "delete"
       \/ op = "store" /\ ~up
       \/ op = "get" /\ ~(up /\ id \in DOMAIN vault.keyring)

\* The fallback file exists and the master does not decrypt it.
Undecryptable(master) ==
    /\ master # NoMaster
    /\ vault.file # EmptyMap
    /\ vault.file_master # master

\* C21: a get, store or delete that reaches a fallback file which the
\* supplied master does not decrypt returns a Crypto error and leaves the
\* file as it was.
C21_UndecryptableFile ==
    [][(/\ vaultCall' # vaultCall
        /\ ReachesFallback(vaultCall'.op, vaultCall'.id, vaultCall'.up)
        /\ Undecryptable(vaultCall'.master))
           => /\ vaultCall'.ret.tag = "Err"
              /\ vault'.file = vault.file
              /\ vault'.file_master = vault.file_master]_vars

\* SecretError::Crypto("master password required")
MasterRequired == SecretErr("encryption error: master password required")

\* C23: a call without a master returns the master-required error exactly
\* when it reaches the fallback file, and then neither the keyring nor the
\* file has changed.
C23_MasterRequired ==
    [][(/\ vaultCall' # vaultCall
        /\ vaultCall'.master = NoMaster)
           => /\ vaultCall'.ret = MasterRequired
                     <=> ReachesFallback(vaultCall'.op, vaultCall'.id,
                                         vaultCall'.up)
              /\ vaultCall'.ret = MasterRequired => vault' = vault]_vars

\* The file shows the caller's finished operation.
Reflected(p) ==
    LET f == fileOps[p]
    IN IF f.op = "store"
       THEN f.id \in DOMAIN vault.file /\ vault.file[f.id] = f.secret
       ELSE f.id \notin DOMAIN vault.file

\* C22: when two callers store or delete distinct ids in the fallback file
\* under one master, however their steps interleave, the file shows the
\* finished operation of each: no update is lost.
C22_NoLostUpdate ==
    \A p \in Callers : fileOps[p].pc = "done" => Reflected(p)

(***************************************************************************)
(* Properties of the known hosts.                                          *)
(***************************************************************************)
Reverse(q) == [i \in 1..Len(q) |-> q[Len(q) + 1 - i]]

\* Some pattern of the list with this negation glob-matches the host.
SomeGlobs(patterns, host, negated) ==
    \E i \in 1..Len(patterns) :
        /\ Negated(patterns[i]) = negated
        /\ Globs(Stripped(patterns[i]), host)

MatchingEntries(entries, host, port) ==
    {i \in 1..Len(entries) :
        HostMatches(entries[i].host_patterns, HostToPattern(host, port),
                    host, port)}

\* C24: over entries without a @revoked marker, check returns Match when
\* an entry matches the host and holds the presented key, Mismatch when
\* entries match the host and none holds the key, NotFound when no entry
\* matches the host; the order of the entries does not change the result.
C24_CheckResult ==
    \A c \in KhCalls :
        LET call == kh.calls[c]
            found == MatchingEntries(call.entries, call.host, call.port)
        IN (/\ call.pc = "done"
            /\ call.result # "none"
            /\ ~call.appended
            /\ \A i \in 1..Len(call.entries) :
                   call.entries[i].marker = "None") =>
               /\ (\E i \in found : call.entries[i].public_key = call.key)
                      => call.result = "Match"
               /\ (/\ found # {}
                   /\ \A i \in found : call.entries[i].public_key # call.key)
                      => call.result = "Mismatch"
               /\ found = {} => call.result = "NotFound"
               /\ call.result = Check(Reverse(call.entries), call.host,
                                      call.port, call.key)

\* The check_server_key call of c returns in this step.
Returns(c) == kh.calls[c].pc = "loaded" /\ kh'.calls[c].pc = "done"

C26_TrustOnFirstUse ==
    \A c \in KhCalls :
        LET call == kh.calls[c]
        IN (/\ call.pc = "done"
            /\ call.policy # "InsecureAcceptAny"
            /\ call.trusted # "none") =>
               /\ call.key = call.trusted => call.result = "Match"
               /\ call.key # call.trusted =>
                      /\ call.result = "Mismatch"
                      /\ ~call.accepted
                      /\ ~call.appended

Imports == catalog'.imports = catalog.imports + 1

\* C29: the connections an import returns are exactly the rows it added,
\* no two of them have the same (host, port, user), and an import of the
\* config that was imported just before returns and adds nothing.
C29_ImportIdempotent ==
    [][Imports =>
          LET returned == catalog'.call.returned
          IN /\ {RowOf(returned[i]) : i \in 1..Len(returned)}
                    = catalog'.rows \ catalog.rows
             /\ \A i, j \in 1..Len(returned) :
                    ImportKey(returned[i]) = ImportKey(returned[j]) => i = j
             /\ (/\ catalog.call.op = "import"
                 /\ catalog.call.config = catalog'.call.config)
                    => returned = <<>> /\ catalog'.rows = catalog.rows]_vars

\* The Port values of the blocks that an import has to refuse.
BadPort(block) == block.port # NoPort /\ block.port \notin 1..65535

\* C30: an import of a config with a Port of 0 or above 65535 fails as
\* Invalid, and no imported connection has a port outside 1..65535.
C30_ImportPort ==
    catalog.call.op = "import" =>
        /\ (\E i \in 1..Len(catalog.call.config) :
                BadPort(catalog.call.config[i]))
               => ~catalog.call.ret.ok /\ catalog.call.ret.kind = "Invalid"
        /\ \A i \in 1..Len(catalog.call.returned) :
               catalog.call.returned[i].port \in 1..65535

\* The vault holds the secret under the id, in the keyring or in the file.
Holds(v, id, secret) ==
    \/ id \in DOMAIN v.keyring /\ v.keyring[id] = secret
    \/ id \in DOMAIN v.file /\ v.file[id] = secret

\* A connect_with_password call of slot id starts in this step.
PasswordCall(id) == calls[id].pc = "idle" /\ calls'[id].pc # "idle"

\* C31: a connect_with_password call whose save succeeded leaves the
\* password in the vault under conn:{id}:password and the row of the
\* connection with auth_method Password of that secret_ref; a call without
\* save changes neither the vault nor the rows.
C31_SavePassword ==
    [][\A id \in SessionIds :
          PasswordCall(id) =>
              LET call == calls'[id]
                  ref == ConnPasswordRef(call.connection_id)
              IN /\ (call.save /\ call.saved.ok) =>
                        /\ Holds(vault', ref, call.password)
                        /\ \A r \in catalog'.rows :
                               r.id = UuidText(call.connection_id)
                                   => r.auth_method = Password(ref)
                 /\ ~call.save =>
                        /\ vault' = vault
                        /\ catalog'.rows = catalog.rows]_vars

\* The auth_method of the connection in the rows.
RowAuth(rows, id) ==
    (CHOOSE r \in rows : r.id = UuidText(id)).auth_method

\* C31 (amended): a connect_with_password call whose save succeeded leaves
\* the password in the vault under the secret_ref the connection already
\* had as Password, or under conn:{id}:password if it had none, and the row
\* of the connection with auth_method Password of that secret_ref; a call
\* whose save failed returns that error and leaves the rows as they were;
\* a call without save changes neither the vault nor the rows.
C31_SavePasswordRef ==
    [][\A id \in SessionIds :
          PasswordCall(id) =>
              LET call == calls'[id]
                  before == RowAuth(catalog.rows, call.connection_id)
                  ref == IF before.type = "Password" THEN before.ref
                         ELSE ConnPasswordRef(call.connection_id)
              IN /\ (call.save /\ call.saved.ok) =>
                        /\ Holds(vault', ref, call.password)
                        /\ RowAuth(catalog'.rows, call.connection_id)
                               = Password(ref)
                 /\ (call.save /\ ~call.saved.ok) =>
                        /\ call.pc = "done"
                        /\ call.result = call.saved
                        /\ catalog'.rows = catalog.rows
                 /\ ~call.save =>
                        /\ vault' = vault
                        /\ catalog'.rows = catalog.rows]_vars

\* C31 witness: a call that saved the password of the connection whose
\* secret_ref is s1 has connected.
C31_Witness ==
    \E id \in SessionIds :
        /\ calls[id].pc = "done"
        /\ calls[id].result.ok
        /\ calls[id].save
        /\ calls[id].saved.ok
        /\ calls[id].connection_id = 2
        /\ Holds(vault, "s1", calls[id].password)
        /\ RowAuth(catalog.rows, 2) = Password("s1")

\* C32: a store_secret that goes to the fallback file of a vault whose file
\* is intact leaves every other id of the file in it with its value,
\* whatever master the call was given.
C32_StoreFrame ==
    [][(/\ vaultCall' # vaultCall
        /\ vaultCall'.op = "store"
        /\ ~vaultCall'.up
        /\ vaultCall'.ret.tag = "Ok"
        /\ vault.file_master # Damaged)
           => \A other \in DOMAIN vault.file \ {vaultCall'.id} :
                  /\ other \in DOMAIN vault'.file
                  /\ vault'.file[other] = vault.file[other]]_vars

\* C33: when an entry marked @revoked matches the target host, check
\* returns Revoked, whatever key is presented and wherever the entry stands.
C33_RevokedWins ==
    \A c \in KhCalls :
        LET call == kh.calls[c]
            found == MatchingEntries(call.entries, call.host, call.port)
        IN (/\ call.pc = "done"
            /\ call.result # "none"
            /\ \E i \in found : call.entries[i].marker = "Revoked")
               => call.result = "Revoked"

\* Step k of the loop is the given one.
StepIs(d, k, what, how, link) == d.steps[k] = <<what, how, link>>

\* C34: the transport of link i+1 is opened only after link i passed its
\* host-key verification and authenticated, over a channel of link i; a
\* failed step ends the call with an error and without a session; a call
\* that succeeded holds the handle of the last link and the handles of all
\* jump hosts, in order.
C34_ChainInOrder ==
    \A id \in SessionIds :
        LET d == dial[id]
            n == ChainLen(calls[id].cfg.value)
        IN calls[id].cfg.ok =>
               /\ \A k \in 1..Len(d.steps) : \A i \in 2..(MaxJumps + 1) :
                      StepIs(d, k, "transport", "ok", i) =>
                          /\ \E j \in 1..(k - 1) :
                                 StepIs(d, j, "hostkey", "ok", i - 1)
                          /\ \E j \in 1..(k - 1) :
                                 StepIs(d, j, "auth", "ok", i - 1)
               /\ \A i \in 1..Len(d.via) : d.via[i] = i - 1
               /\ (\E k \in 1..Len(d.steps) : d.steps[k][2] = "failed") =>
                      /\ d.phase = "returned"
                      /\ d.session = NoSshSession
                      /\ calls[id].pc = "done"
                      /\ ~calls[id].result.ok
                      /\ id \notin DOMAIN sessions
               /\ d.session # NoSshSession =>
                      /\ calls[id].outcome.ok
                      /\ d.session.handle = n
                      /\ d.session.jump_handles = [i \in 1..(n - 1) |-> i]
                      /\ \A i \in 1..n : \E k \in 1..Len(d.steps) :
                             StepIs(d, k, "auth", "ok", i)
               /\ calls[id].outcome.ok => d.session # NoSshSession

\* C34 witness: a connect through a jump host returned its session, and
\* another one failed at the host key of its second link.
C34_Witness ==
    /\ \E id \in SessionIds :
           /\ calls[id].pc = "done"
           /\ calls[id].result.ok
           /\ dial[id].session = [handle |-> 2, jump_handles |-> <<1>>]
           /\ dial[id].via = <<0, 1>>
    /\ \E id \in SessionIds :
           /\ calls[id].pc = "done"
           /\ calls[id].outcome = [ok |-> FALSE, link |-> 2,
                                   reason |-> "hostkey"]

\* C35: send_startup_commands runs every startup command once and in
\* order, however the commands before it ended.
C35_AllCommandsRun ==
    \A id \in SessionIds :
        startup[id].returned =>
            startup[id].ran = [i \in 1..Len(startup[id].commands) |-> i]

\* The data of the messages from i on, in arrival order.
RECURSIVE BytesFrom(_, _)
BytesFrom(msgs, i) ==
    IF i > Len(msgs) THEN <<>>
    ELSE (IF msgs[i].type \in {"Data", "ExtendedData"} THEN msgs[i].data
          ELSE <<>>) \o BytesFrom(msgs, i + 1)

\* C36: for every order of the server's messages, exec returns all data in
\* arrival order and the exit status that was sent, and wait_exit of a
\* shell returns the exit status whenever one was sent.
C36_ExitStatus ==
    /\ chan.op # "none" => chan.output = BytesFrom(chan.msgs, 1)
    /\ \A i \in Positions(chan.msgs, "ExitStatus") :
           chan.op # "none" => chan.status = chan.msgs[i].status

(***************************************************************************)
(* Progress events of a copy (transfer.rs:354-393, update_progress).       *)
(***************************************************************************)
EmptyFile == TransferFile(0, 0, FALSE)

\* The jobs of the progress specification: files of no, few and many units,
\* sent, fetched and copied locally.
ProgressShapes ==
    {JobShape("Local", "Remote", 1, <<EmptyFile>>, FALSE),
     JobShape("Local", "Remote", 1, <<EmptyFile, WholeFile>>, FALSE),
     JobShape("Remote", "Local", 1, <<WholeFile, GrownFile>>, FALSE),
     JobShape("Local", "Local", 0, <<WholeFile>>, FALSE),
     JobShape("Local", "Local", 0, <<>>, FALSE)}

\* One job, handed over once its session is connected; reads return any
\* number of units up to the buffer's size, and time passes between them.
ProgressNext ==
    \/ \E shape \in ProgressShapes :
           calls[1].pc = "done" /\ Enqueue(1, shape)
    \/ WorkerRecv
    \/ FileBegin
    \/ \E ok \in BOOLEAN : OpenSftp(ok)
    \/ Tick
    \/ \E n \in 1..BufferUnits : CopyChunk(n)
    \/ \E kind \in {"Io", "Ssh"} : CopyFail(kind)
    \/ \E same \in BOOLEAN : CopyEnd(same)
    \/ LocalCopy
    \/ JobFinish
    \/ ConnectBegin(1, SessionConn, NoMaster)
    \/ SshConnect(1, SshOk)
    \/ SendStartupCommands(1)
    \/ Register(1)
    \/ Announce(1)

ProgressSpec == Init /\ [][ProgressNext]_vars

\* The step sent a TransferProgress event.
Published ==
    /\ Len(bus') > Len(bus)
    /\ bus'[Len(bus')].type = "TransferProgress"

\* bytes_transferred of the newest TransferProgress event of the stream.
RECURSIVE PublishedBytes(_)
PublishedBytes(log) ==
    IF log = <<>> THEN 0
    ELSE IF log[Len(log)].type = "TransferProgress"
         THEN log[Len(log)].progress.bytes_transferred
         ELSE PublishedBytes(SubSeq(log, 1, Len(log) - 1))

\* The step is an unforced update: a turn of a copy loop.
UnforcedUpdate ==
    /\ worker.pc = "copy"
    /\ jobs'[1].progress.bytes_transferred
           > jobs[1].progress.bytes_transferred

\* The step is a forced update: the job's start, a file's start or end, or
\* the final state transition.
ForcedUpdate ==
    \/ worker.pc = "idle" /\ worker'.pc # "idle"
    \/ worker.pc = "file"
    \/ jobs'[1].progress.files_completed > jobs[1].progress.files_completed
    \/ jobs'[1].state \in {"Completed", "Failed"} /\ jobs[1].state = "InProgress"

\* C37: an unforced update of a copy publishes a TransferProgress event
\* exactly when EmitUnits were transferred since the last published event or
\* EmitTicks passed since it; the job's start, every file's start and end and
\* the final state transition always publish one; after a publication by
\* update_progress the byte and time baselines are the current values.
C37_ProgressEvents ==
    [][(worker.pc # "idle" \/ worker'.pc # "idle") =>
       /\ UnforcedUpdate =>
            (Published <=>
                \/ jobs'[1].progress.bytes_transferred - PublishedBytes(bus)
                       >= EmitUnits
                \/ worker.last_emit >= EmitTicks)
       /\ ForcedUpdate => Published
       /\ (Published /\ worker'.pc # "idle") =>
            (/\ worker'.last_bytes = jobs'[1].progress.bytes_transferred
             /\ worker'.last_emit = 0)
       /\ Published =>
            (bus'[Len(bus')].progress = jobs'[1].progress)]_vars

\* C37 witness: the copy of a file has ended after an update that sent no
\* event (one unit since the last one), an update that sent one for the
\* bytes, and an update that sent one for the time alone (one unit since the
\* last event).
C37_Witness ==
    LET sent == {bus[i].progress.bytes_transferred :
                    i \in {k \in DOMAIN bus :
                              bus[k].type = "TransferProgress"}}
    IN /\ worker.pc = "copy"
       /\ worker.left = 0
       /\ 1 \notin sent
       /\ EmitUnits \in sent
       /\ EmitUnits + 1 \in sent

(***************************************************************************)
(* The lock of an SshSession (client.rs:114-212).                          *)
(***************************************************************************)
LockNext ==
    \/ \E c \in LockCallers : \E op \in OpsOf(c) : \E s \in SessionIds :
           SessionCall(c, op, s)
    \/ \E c \in LockCallers : \E n \in 0..MaxCommands : CloneCommands(c, n)
    \/ \E c \in LockCallers : SessionReturn(c)
    \/ \E c \in LockCallers : \E ok \in BOOLEAN : ExecOpen(c, ok)
    \/ \E c \in LockCallers : \E how \in {"Eof", "Closed"} : ExecEnd(c, how)
    \/ \E c \in LockCallers : ExecTimeout(c)

LockSpec == Init /\ [][LockNext]_vars

\* The caller is past lock().await and has not returned.
InOperation(o) == o.pc \in {"held", "reading"}

\* C38: from its channel open until its loop ends, an exec keeps every other
\* open_shell, open_sftp, exec and is_closed call on its session waiting: a
\* waiting call goes on only in the step in which the exec ends, and no two
\* calls on one session are past the lock at a time.
C38_ExecHoldsLock ==
    [][\A c \in LockCallers : \A d \in LockCallers \ {c} :
          /\ (InOperation(ops'[c]) /\ InOperation(ops'[d]))
                => ops'[c].session # ops'[d].session
          /\ (/\ ops[c].op = "exec"
              /\ InOperation(ops[c])
              /\ ops[d].session = ops[c].session
              /\ ops[d].pc = "waiting"
              /\ InOperation(ops'[d]))
                => ~InOperation(ops'[c])]_vars

\* C38 witness: a startup command's exec waits for output while the
\* worker's open_sftp and an is_closed call wait for the same session.
C38_Witness ==
    /\ ops["connect"].op = "exec"
    /\ ops["connect"].pc = "reading"
    /\ ops["worker"].pc = "waiting"
    /\ ops["worker"].session = ops["connect"].session
    /\ ops["ui"].pc = "waiting"
    /\ ops["ui"].op = "is_closed"
    /\ ops["ui"].session = ops["connect"].session

(***************************************************************************)
(* The task that records last_connected_at (session.rs:159-167).           *)
(***************************************************************************)
\* The row but for the two columns of the task.
Untimed(row) == [row EXCEPT !.last_connected_at = Null,
                            !.updated_at = Null]

\* C39: the write of the task that follows a successful connect changes only
\* last_connected_at and updated_at: every other column of every row is
\* after the write what it was before it, whatever update_connection or
\* set_connection_password wrote while the task ran.
C39_TouchKeepsFields ==
    [][\A id \in SessionIds :
          (touch[id].pc = "read" /\ touch'[id].pc = "done")
             => {Untimed(r) : r \in catalog'.rows}
                   = {Untimed(r) : r \in catalog.rows}]_vars

(***************************************************************************)
(* disconnect(id) while a copy runs (session.rs:172-189,                   *)
(* transfer.rs:149-168).                                                   *)
(***************************************************************************)
SessionNotFound == CoreError("Invalid", "session not found")

\* The step removed a handle from the registry.
Disconnects == \E id \in DOMAIN sessions : id \notin DOMAIN sessions'

\* C40: a disconnect leaves the transports, the worker and the jobs as they
\* were; no job is ever Cancelled; a copy that is past its lookup never
\* fails with "session not found"; that error comes only from a lookup made
\* while the session is not registered, and a lookup made while it is
\* registered goes on to open SFTP.
C40_DisconnectLeavesCopy ==
    [][/\ Disconnects =>
            (/\ transports' = transports
             /\ worker' = worker
             /\ jobs' = jobs
             /\ queue' = queue)
       /\ \A j \in DOMAIN jobs' : jobs'[j].state # "Cancelled"
       /\ (worker.pc \in {"sftp", "copy"}) =>
            (worker'.result # SessionNotFound)
       /\ (worker'.result = SessionNotFound /\ worker.result # SessionNotFound)
            => (/\ worker.pc = "file"
                /\ GetSession(jobs[worker.job].session_id) = NoHandle)
       /\ (/\ worker.pc = "file"
           /\ worker' # worker
           /\ OneRemote(worker.job)
           /\ GetSession(jobs[worker.job].session_id) # NoHandle)
            => (worker'.pc = "sftp")]_vars

\* C40 witness: a job with a remote endpoint is Completed, and its events
\* show bytes transferred after the Disconnected event of its session.
C40_Witness ==
    \E j \in DOMAIN jobs :
        /\ jobs[j].state = "Completed"
        /\ OneRemote(j)
        /\ \E h, i, k \in DOMAIN bus :
               /\ h < i /\ i < k
               /\ bus[i] = SessionStateChanged(jobs[j].session_id,
                                               "Disconnected")
               /\ bus[h].type = "TransferProgress" /\ bus[h].id = j
               /\ bus[k].type = "TransferProgress" /\ bus[k].id = j
               /\ bus[h].progress.bytes_transferred
                      < bus[k].progress.bytes_transferred

====
